---- MODULE Spec2Model ----
(***************************************************************************)
(* Model of the aggregation and training-load analytics of the fitness     *)
(* tracker (scripts/update_dashboard.py, scripts/generate_charts_data.py). *)
(*                                                                         *)
(* Numbers.  The aggregators round every load and health figure to one     *)
(* decimal, and the ACWR to two.  A one-decimal float is held here as the  *)
(* integer number of tenths (total_rss = 100.5 is 1005) and the ACWR as    *)
(* the integer number of hundredths (acwr = 1.3 is 130).  round(x, n) is   *)
(* Python's round-half-to-even, computed on the exact quotient.            *)
(*                                                                         *)
(* Lists.  Python lists are sequences; Python index i is index i + 1.      *)
(***************************************************************************)
EXTENDS Integers, Sequences, FiniteSets, TLC

VARIABLES
    pc,               \* which call has been made: "start" or the callee's name
    running_periods,  \* argument of calculate_training_load / compute_rolling_acwr
    week_starts,      \* argument of compute_rolling_acwr
    tl,               \* TrainingLoad returned by calculate_training_load
    load_data,        \* list returned by compute_rolling_acwr
    load,             \* TrainingLoad argument of detect_overreaching
    health_weeks,     \* HealthWeek list argument of detect_overreaching
    warnings,         \* list returned by detect_overreaching
    today,            \* reference date of get_period_boundaries
    period_type,      \* period_type argument of get_period_boundaries
    count,            \* count argument of get_period_boundaries
    periods,          \* list returned by get_period_boundaries
    records,          \* record list argument of group_by_period
    group_periods,    \* period list argument of group_by_period
    buckets,          \* list of lists returned by group_by_period
    current_value,    \* current argument of trend_direction
    previous_avg,     \* previous_avg argument of trend_direction
    direction,        \* string returned by trend_direction
    training_records, \* records argument of calculate_training_week / _running_period
    training_week,    \* TrainingWeek returned by calculate_training_week
    running_period,   \* RunningPeriod returned by calculate_running_period
    health_records,   \* records argument of calculate_health_week
    health_week,      \* HealthWeek returned by calculate_health_week
    training_by_week, \* training buckets of _compute_dashboard_data, current week first
    health_by_week,   \* health buckets of _compute_dashboard_data, current week first
    training_weeks,   \* TrainingWeek list of _compute_dashboard_data
    running_power_insight,         \* DashboardData.running_power_insight
    running_biomechanics_insight,  \* DashboardData.running_biomechanics_insight
    health_sleep_insight,          \* DashboardData.health_sleep_insight
    health_hr_insight,             \* DashboardData.health_hr_insight
    health_recovery_insight,       \* DashboardData.health_recovery_insight
    training_takeaway,             \* DashboardData.training_takeaway
    charts_data,      \* dict returned by build_charts_data
    invocation,       \* per invocation: the function called and how far it has read
    frames,           \* per invocation: the local lists the call has allocated
    returned,         \* per invocation: the value the call returned
    notion,           \* the Notion workspace: children of each page, create calls, deleted blocks
    title,            \* title argument of find_or_create_subpage
    page_id,          \* id returned by find_or_create_subpage
    subpage_ids,      \* DashboardData.subpage_ids: (title, page id) pairs
    subpage_calls,    \* number of find_or_create_subpage calls made
    activities,       \* activity summaries fetch_activities returns to every run
    training_db,      \* pages of the Training Sessions database, in query order
    sync_calls,       \* create_page and update_page calls issued, with their run
    sync_counts,      \* (updated, created, skipped) returned by the last run
    sync_runs         \* number of sync_activities runs made

vars == <<pc, running_periods, week_starts, tl, load_data, load, health_weeks,
          warnings, today, period_type, count, periods, records,
          group_periods, buckets, current_value, previous_avg, direction,
          training_records, training_week, running_period, health_records,
          health_week, training_by_week, health_by_week, training_weeks,
          running_power_insight, running_biomechanics_insight,
          health_sleep_insight, health_hr_insight, health_recovery_insight,
          training_takeaway, charts_data, invocation, frames, returned,
          notion, title, page_id, subpage_ids, subpage_calls, activities,
          training_db, sync_calls, sync_counts, sync_runs>>

load_vars == <<running_periods, week_starts, tl, load_data>>
overreach_vars == <<load, health_weeks, warnings>>
period_vars == <<today, period_type, count, periods>>
group_vars == <<records, group_periods, buckets>>
trend_vars == <<current_value, previous_avg, direction>>
training_vars == <<training_records, training_week, running_period>>
health_vars == <<health_records, health_week>>
aggregate_vars == <<training_vars, health_vars>>
insight_vars == <<training_by_week, health_by_week, training_weeks,
                  running_power_insight, running_biomechanics_insight,
                  health_sleep_insight, health_hr_insight,
                  health_recovery_insight, training_takeaway>>
charts_vars == <<charts_data>>
concurrent_vars == <<invocation, frames, returned>>
page_vars == <<notion, title, page_id, subpage_ids, subpage_calls>>
stryd_vars == <<activities, training_db, sync_calls, sync_counts, sync_runs>>

----------------------------------------------------------------------------
(* Bounds of the explored inputs *)

MaxPeriods == 5        \* longest list of running periods
MaxHealthWeeks == 3    \* longest list of health weeks
MaxCount == 4          \* largest count passed to get_period_boundaries
MaxRecords == 2        \* longest record list passed to group_by_period
MaxGroupPeriods == 2   \* longest period list passed to group_by_period
MaxBucket == 3         \* most records in one period's bucket
MaxWeeks == 2          \* longest list of weeks given to the insight generators
MaxCurrent == 2        \* most records in the current week of an insight
MaxPrior == 1          \* most records in a prior week of an insight
MaxChartTraining == 2  \* longest training list given to build_charts_data
MaxChartHealth == 1    \* longest health list given to build_charts_data
MaxInvocations == 2    \* most invocations in progress at the same time
MaxChildren == 2       \* most blocks on the dashboard page before a run
MaxCalls == 3          \* most find_or_create_subpage calls in a row
MaxLoadPeriods == 2    \* most running periods given to the load and warning pipeline
MaxActivities == 2     \* most activities the Stryd API returns
MaxPages == 2          \* most pages in the database before the first run
MaxRuns == 2           \* most sync_activities runs

----------------------------------------------------------------------------
(* Generic helpers *)

Min(a, b) == IF a < b THEN a ELSE b

Max(a, b) == IF a > b THEN a ELSE b

BoundedSeq(S, n) == UNION {[1..k -> S] : k \in 0..n}

RECURSIVE SumSeq(_)
SumSeq(s) == IF s = <<>> THEN 0 ELSE Head(s) + SumSeq(Tail(s))

\* list(reversed(s))
Reversed(s) == [i \in 1..Len(s) |-> s[Len(s) + 1 - i]]

\* Python round(): the integer nearest to num/den (den > 0), a tie going to
\* the even neighbour.  With num in tenths and den a count this is
\* round(sum / len, 1) in tenths.
Round(num, den) ==
    LET q == num \div den
        r == num % den
    IN  IF 2 * r > den THEN q + 1
        ELSE IF 2 * r < den THEN q
        ELSE IF q % 2 = 0 THEN q ELSE q + 1

\* _safe_avg(values): values in tenths, result in tenths
_safe_avg(values) ==
    IF values = <<>> THEN 0 ELSE Round(SumSeq(values), Len(values))

----------------------------------------------------------------------------
(* Training load and ACWR: update_dashboard.py, calculate_training_load *)

\* TrainingLoad(): the dataclass defaults.  A string built by an f-string is
\* the sequence of its parts, the empty string the empty sequence.
TrainingLoad ==
    [label |-> <<>>, weekly_rss |-> 0, acute_load |-> 0, chronic_load |-> 0,
     acwr |-> 0, load_status |-> ""]

\* mutant: the 1.3 boundary falls into 'caution'
load_status_of_strict(acwr) ==
    IF acwr < 80 THEN "detraining"
    ELSE IF acwr < 130 THEN "optimal"
    ELSE IF acwr <= 150 THEN "caution"
    ELSE "danger"

\* the if/elif chain on tl.acwr (hundredths)
load_status_of(acwr) ==
    IF acwr < 80 THEN "detraining"
    ELSE IF acwr <= 130 THEN "optimal"
    ELSE IF acwr <= 150 THEN "caution"
    ELSE "danger"

\* mutant: the chronic window takes every prior period
chronic_periods_of_all(rps) ==
    IF Len(rps) > 1 THEN SubSeq(rps, 2, Len(rps)) ELSE <<>>

\* running_periods[1:4] if len(running_periods) > 1 else []
chronic_periods_of(rps) ==
    IF Len(rps) > 1 THEN SubSeq(rps, 2, Min(4, Len(rps))) ELSE <<>>

\* mutant: no fallback to the acute load, chronic_load keeps its default 0.0
chronic_load_of_no_fallback(chronic_periods, acute_load) ==
    IF chronic_periods # <<>>
    THEN Round(SumSeq([i \in 1..Len(chronic_periods) |->
                          chronic_periods[i].total_rss]),
               Len(chronic_periods))
    ELSE 0

\* tl.chronic_load: the mean of the chronic periods' total_rss to one
\* decimal, the acute load when there is no chronic period
chronic_load_of(chronic_periods, acute_load) ==
    IF chronic_periods # <<>>
    THEN Round(SumSeq([i \in 1..Len(chronic_periods) |->
                          chronic_periods[i].total_rss]),
               Len(chronic_periods))
    ELSE acute_load

\* mutant: a zero chronic load gives the neutral ratio 1.0
acwr_of_neutral(acute_load, chronic_load) ==
    IF chronic_load > 0 THEN Round(acute_load * 100, chronic_load) ELSE 100

\* tl.acwr = round(acute / chronic, 2) if chronic > 0 else 0.0; the tenths
\* cancel in the quotient, the factor 100 gives hundredths
acwr_of(acute_load, chronic_load) ==
    IF chronic_load > 0 THEN Round(acute_load * 100, chronic_load) ELSE 0

calculate_training_load(rps) ==
    IF rps = <<>> THEN TrainingLoad
    ELSE
      LET acute_load == rps[1].total_rss
          chronic_periods == chronic_periods_of(rps)
          chronic_load == chronic_load_of(chronic_periods, acute_load)
          acwr == acwr_of(acute_load, chronic_load)
          load_status == load_status_of(acwr)
      IN  [label |-> <<"ACWR ", acwr, " (", load_status, ")">>,
           weekly_rss |-> acute_load,
           acute_load |-> acute_load,
           chronic_load |-> chronic_load,
           acwr |-> acwr,
           load_status |-> load_status]

----------------------------------------------------------------------------
(* datetime.date as the code uses it: a (year, month, day) value, ordered  *)
(* by the calendar, moved by timedelta through its proleptic Gregorian     *)
(* ordinal, printed by isoformat and read back by fromisoformat.           *)

_is_leap(y) == y % 4 = 0 /\ (y % 100 # 0 \/ y % 400 = 0)

_DAYS_IN_MONTH == <<31, 28, 31, 30, 31, 30, 31, 31, 30, 31, 30, 31>>

_DAYS_BEFORE_MONTH == <<0, 31, 59, 90, 120, 151, 181, 212, 243, 273, 304, 334>>

\* calendar.monthrange(y, m)[1]
monthrange_days(y, m) ==
    IF m = 2 /\ _is_leap(y) THEN 29 ELSE _DAYS_IN_MONTH[m]

_days_before_year(y) ==
    LET y1 == y - 1
    IN  y1 * 365 + (y1 \div 4) - (y1 \div 100) + (y1 \div 400)

_days_before_month(y, m) ==
    _DAYS_BEFORE_MONTH[m] + (IF m > 2 /\ _is_leap(y) THEN 1 ELSE 0)

\* date(y, m, d)
date(y, m, d) == [year |-> y, month |-> m, day |-> d]

\* d.toordinal()
toordinal(d) ==
    _days_before_year(d.year) + _days_before_month(d.year, d.month) + d.day

\* date.fromordinal(n)
fromordinal(ord) ==
    LET n0 == ord - 1
        n400 == n0 \div 146097
        r400 == n0 % 146097
        n100 == r400 \div 36524
        r100 == r400 % 36524
        n4 == r100 \div 1461
        r4 == r100 % 1461
        n1 == r4 \div 365
        n == r4 % 365
        y == n400 * 400 + 1 + n100 * 100 + n4 * 4 + n1
    IN  IF n1 = 4 \/ n100 = 4 THEN date(y - 1, 12, 31)
        ELSE
          LET leapyear == n1 = 3 /\ (n4 # 24 \/ n100 = 3)
              leapday(m) == IF m > 2 /\ leapyear THEN 1 ELSE 0
              m0 == (n + 50) \div 32
              p0 == _DAYS_BEFORE_MONTH[m0] + leapday(m0)
              m == IF p0 > n THEN m0 - 1 ELSE m0
              preceding == IF p0 > n
                           THEN _DAYS_BEFORE_MONTH[m] + leapday(m)
                           ELSE p0
          IN  date(y, m, n - preceding + 1)

\* d.weekday(): Monday is 0
weekday(d) == (toordinal(d) + 6) % 7

\* d + timedelta(days=k)
plus_days(d, k) == fromordinal(toordinal(d) + k)

\* mutant: the comparison excludes equal dates
date_le_strict(a, b) ==
    \/ a.year < b.year
    \/ a.year = b.year /\ a.month < b.month
    \/ a.year = b.year /\ a.month = b.month /\ a.day < b.day

\* a <= b on dates
date_le(a, b) ==
    \/ a.year < b.year
    \/ a.year = b.year /\ a.month < b.month
    \/ a.year = b.year /\ a.month = b.month /\ a.day <= b.day

DigitChars == <<"0", "1", "2", "3", "4", "5", "6", "7", "8", "9">>

digit(n) == DigitChars[n + 1]

digit_value(c) == CHOOSE n \in 0..9 : DigitChars[n + 1] = c

\* d.isoformat(): "YYYY-MM-DD" as its sequence of characters
isoformat(d) ==
    <<digit(d.year \div 1000), digit((d.year \div 100) % 10),
      digit((d.year \div 10) % 10), digit(d.year % 10), "-",
      digit(d.month \div 10), digit(d.month % 10), "-",
      digit(d.day \div 10), digit(d.day % 10)>>

\* date.fromisoformat(s) for a "YYYY-MM-DD" string
fromisoformat(s) ==
    date(digit_value(s[1]) * 1000 + digit_value(s[2]) * 100
           + digit_value(s[3]) * 10 + digit_value(s[4]),
         digit_value(s[6]) * 10 + digit_value(s[7]),
         digit_value(s[9]) * 10 + digit_value(s[10]))

MonthAbbr == <<"Jan", "Feb", "Mar", "Apr", "May", "Jun",
               "Jul", "Aug", "Sep", "Oct", "Nov", "Dec">>

\* d.strftime('%b %d')
strftime_b_d(d) ==
    <<MonthAbbr[d.month], " ", digit(d.day \div 10), digit(d.day % 10)>>

\* d.strftime('%b %Y')
strftime_b_Y(d) == <<MonthAbbr[d.month], " ", d.year>>

----------------------------------------------------------------------------
(* Rolling ACWR: generate_charts_data.py, compute_rolling_acwr *)

\* mutant: the window is left oldest-first
rolling_window_unreversed(rps, i) ==
    LET window_start == Max(0, i - 3)
    IN  SubSeq(rps, window_start + 1, i + 1)

\* list(reversed(running_periods[window_start : i + 1])), i the Python index
rolling_window(rps, i) ==
    LET window_start == Max(0, i - 3)
    IN  Reversed(SubSeq(rps, window_start + 1, i + 1))

compute_rolling_acwr(rps, starts) ==
    [k \in 1..Len(rps) |->
        LET rp == rps[k]
            window == rolling_window(rps, k - 1)
            ld == calculate_training_load(window)
        IN  [week_start |-> isoformat(starts[k]),
             label |-> rp.label,
             weekly_rss |-> rp.total_rss,
             acute_load |-> ld.acute_load,
             chronic_load |-> ld.chronic_load,
             acwr |-> ld.acwr,
             load_status |-> ld.load_status]]

----------------------------------------------------------------------------
(* Overreaching: update_dashboard.py, detect_overreaching *)

\* the three f-string warnings, as the sequences of their parts
battery_warning(current_hw, avg_battery, ld) ==
    <<"Body battery declining (", current_hw.avg_body_battery, " vs avg ",
      avg_battery, ") with high training load (ACWR ", ld.acwr, ")">>

sleep_warning(current_hw, avg_sleep) ==
    <<"Sleep declining (", current_hw.avg_sleep_hours, "h vs avg ",
      avg_sleep, "h) with high training load">>

hr_warning(current_hw, avg_hr) ==
    <<"Resting HR elevated (", current_hw.avg_resting_hr, " vs avg ",
      avg_hr, ") with high training load">>

\* current < avg * 0.9 and current > avg * 1.1 on tenths
below_90_pct(current, avg) == 10 * current < 9 * avg

above_110_pct(current, avg) == 10 * current > 11 * avg

\* mutant: the early return needs both conditions
no_overreaching_check_both(ld, hws) == ld.acwr < 130 /\ Len(hws) < 2

\* the early return: load.acwr < 1.3 or len(health_weeks) < 2
no_overreaching_check(ld, hws) == ld.acwr < 130 \/ Len(hws) < 2

\* mutant: the three checks chained by elif, the first hit wins
collect_warnings_elif(w1, w2, w3) ==
    IF w1 # <<>> THEN w1 ELSE IF w2 # <<>> THEN w2 ELSE w3

\* the three independent if blocks append to one list, in this order
collect_warnings(w1, w2, w3) == w1 \o w2 \o w3

detect_overreaching(ld, hws) ==
    IF no_overreaching_check(ld, hws) THEN <<>>
    ELSE
      LET current_hw == hws[1]
          prior_hw == Tail(hws)
          avg_battery ==
              _safe_avg([i \in 1..Len(prior_hw) |-> prior_hw[i].avg_body_battery])
          avg_sleep ==
              _safe_avg([i \in 1..Len(prior_hw) |-> prior_hw[i].avg_sleep_hours])
          avg_hr ==
              _safe_avg([i \in 1..Len(prior_hw) |-> prior_hw[i].avg_resting_hr])
          w1 == IF avg_battery > 0
                   /\ below_90_pct(current_hw.avg_body_battery, avg_battery)
                THEN <<battery_warning(current_hw, avg_battery, ld)>> ELSE <<>>
          w2 == IF avg_sleep > 0
                   /\ below_90_pct(current_hw.avg_sleep_hours, avg_sleep)
                THEN <<sleep_warning(current_hw, avg_sleep)>> ELSE <<>>
          w3 == IF avg_hr > 0
                   /\ above_110_pct(current_hw.avg_resting_hr, avg_hr)
                THEN <<hr_warning(current_hw, avg_hr)>> ELSE <<>>
      IN  collect_warnings(w1, w2, w3)

----------------------------------------------------------------------------
(* Period boundaries: update_dashboard.py, get_period_boundaries *)

\* a (start, end, label) tuple
period(start, end, label) == [start |-> start, end |-> end, label |-> label]

\* the " \u2013 " separator of the week label, in ASCII
EnDash == " - "

week_boundaries(tdy, n) ==
    LET current_monday == plus_days(tdy, 0 - weekday(tdy))
    IN  [k \in 1..n |->
            LET monday == plus_days(current_monday, 0 - 7 * (k - 1))
                sunday == plus_days(monday, 6)
            IN  period(monday, sunday,
                       strftime_b_d(monday) \o <<EnDash>> \o strftime_b_d(sunday))]

\* mutant: the wrap to December keeps the year
prev_month_same_year(y, m) ==
    IF m - 1 < 1 THEN <<y, 12>> ELSE <<y, m - 1>>

\* m -= 1; if m < 1: m = 12; y -= 1
prev_month(y, m) ==
    IF m - 1 < 1 THEN <<y - 1, 12>> ELSE <<y, m - 1>>

\* the month loop: y, m are the loop variables on entry to an iteration
RECURSIVE month_boundaries(_, _, _)
month_boundaries(y, m, n) ==
    IF n = 0 THEN <<>>
    ELSE
      LET first == date(y, m, 1)
          last == date(y, m, monthrange_days(y, m))
          prev == prev_month(y, m)
      IN  <<period(first, last, strftime_b_Y(first))>>
          \o month_boundaries(prev[1], prev[2], n - 1)

\* mutant: the wrap goes to the third quarter
prev_quarter_q3(y, q) ==
    IF q - 1 < 1 THEN <<y - 1, 3>> ELSE <<y, q - 1>>

\* q -= 1; if q < 1: q = 4; y -= 1
prev_quarter(y, q) ==
    IF q - 1 < 1 THEN <<y - 1, 4>> ELSE <<y, q - 1>>

\* the quarter loop: y, q are the loop variables on entry to an iteration
RECURSIVE quarter_boundaries(_, _, _)
quarter_boundaries(y, q, n) ==
    IF n = 0 THEN <<>>
    ELSE
      LET first_month == (q - 1) * 3 + 1
          last_month == first_month + 2
          first == date(y, first_month, 1)
          last == date(y, last_month, monthrange_days(y, last_month))
          prev == prev_quarter(y, q)
      IN  <<period(first, last, <<"Q", q, " ", y>>)>>
          \o quarter_boundaries(prev[1], prev[2], n - 1)

\* the year loop
RECURSIVE year_boundaries(_, _)
year_boundaries(y, n) ==
    IF n = 0 THEN <<>>
    ELSE <<period(date(y, 1, 1), date(y, 12, 31), <<y>>)>>
         \o year_boundaries(y - 1, n - 1)

get_period_boundaries(tdy, ptype, n) ==
    IF ptype = "week" THEN week_boundaries(tdy, n)
    ELSE IF ptype = "month" THEN month_boundaries(tdy.year, tdy.month, n)
    ELSE IF ptype = "quarter"
         THEN quarter_boundaries(tdy.year, ((tdy.month - 1) \div 3) + 1, n)
    ELSE IF ptype = "year" THEN year_boundaries(tdy.year, n)
    ELSE <<>>

----------------------------------------------------------------------------
(* Bucketing: update_dashboard.py, group_by_period *)

\* A value of a record's date field carries its Python type: None, a str
\* (an ISO string) or a date.
PyNone == [type |-> "NoneType", value |-> <<>>]

PyStr(s) == [type |-> "str", value |-> s]

PyDate(d) == [type |-> "date", value |-> d]

\* mutant: the search keeps the last period that contains d
RECURSIVE last_period(_, _, _)
last_period(d, ps, idx) ==
    IF idx > Len(ps) THEN 0
    ELSE
      LET later == last_period(d, ps, idx + 1)
      IN  IF later # 0 THEN later
          ELSE IF date_le(ps[idx].start, d) /\ date_le(d, ps[idx].end) THEN idx
          ELSE 0

\* index of the first period with start <= d <= end, 0 if there is none:
\* the inner for loop, left by its break
RECURSIVE first_period(_, _, _)
first_period(d, ps, idx) ==
    IF idx > Len(ps) THEN 0
    ELSE IF date_le(ps[idx].start, d) /\ date_le(d, ps[idx].end) THEN idx
    ELSE first_period(d, ps, idx + 1)

\* the outer for loop over records[i..], bs the buckets built so far
RECURSIVE group_loop(_, _, _, _)
group_loop(recs, ps, i, bs) ==
    IF i > Len(recs) THEN bs
    ELSE
      LET record == recs[i]
          raw == record.date
      IN  IF raw.type = "NoneType" THEN group_loop(recs, ps, i + 1, bs)
          ELSE
            LET d == IF raw.type = "str" THEN fromisoformat(raw.value)
                     ELSE raw.value
                idx == first_period(d, ps, 1)
            IN  IF idx = 0 THEN group_loop(recs, ps, i + 1, bs)
                ELSE group_loop(recs, ps, i + 1,
                                [bs EXCEPT ![idx] = Append(@, record)])

group_by_period(recs, ps) ==
    group_loop(recs, ps, 1, [k \in 1..Len(ps) |-> <<>>])

----------------------------------------------------------------------------
(* Trends: update_dashboard.py, trend_direction *)

\* mutant: the 5% threshold belongs to 'up' and 'down'
trend_direction_inclusive(cur, prev) ==
    IF prev = 0 THEN (IF cur = 0 THEN "stable" ELSE "up")
    ELSE
      LET num == cur - prev
          den == IF prev < 0 THEN -prev ELSE prev
      IN  IF 100 * num >= 5 * den THEN "up"
          ELSE IF 100 * num <= -5 * den THEN "down"
          ELSE "stable"

\* pct_change = (current - previous_avg) / abs(previous_avg) is the exact
\* quotient num / den; it is compared with 0.05 = 5/100 across the
\* (positive) denominators.  Both arguments are on the same scale.
trend_direction(cur, prev) ==
    IF prev = 0 THEN (IF cur = 0 THEN "stable" ELSE "up")
    ELSE
      LET num == cur - prev
          den == IF prev < 0 THEN -prev ELSE prev
      IN  IF 100 * num > 5 * den THEN "up"
          ELSE IF 100 * num < -5 * den THEN "down"
          ELSE "stable"

----------------------------------------------------------------------------
(* Aggregation: update_dashboard.py, calculate_training_week,              *)
(* calculate_health_week, calculate_running_period.                        *)
(*                                                                         *)
(* A record is the dict built by extract_training_props or                 *)
(* extract_health_props: every field holds a value that carries its Python *)
(* type, PyNone where Notion has no value.  A number is a float in tenths. *)

PyFloat(x) == [type |-> "float", value |-> x]

\* bool(v) for a field value: None, "" and 0.0 are false
truthy(v) ==
    IF v.type = "NoneType" THEN FALSE
    ELSE IF v.type = "float" THEN v.value # 0
    ELSE IF v.type = "str" THEN Len(v.value) # 0
    ELSE TRUE

\* r.get(key) or 0 / or 0.0, on a number field
or_zero(v) == IF truthy(v) THEN v.value ELSE 0

\* r.get(key) or "", on a select field
or_empty(v) == IF truthy(v) THEN v.value ELSE ""

\* int(x) for a float x >= 0 in tenths: the fraction is dropped
int(x) == x \div 10

\* [float(r[key]) for r in recs if r.get(key) is not None]
present_values(recs, key) ==
    LET having == SelectSeq(recs, LAMBDA r : r[key].type # "NoneType")
    IN  [i \in 1..Len(having) |-> having[i][key].value]

\* max(values) of a non-empty list
RECURSIVE max(_)
max(values) ==
    IF Len(values) = 1 THEN values[1]
    ELSE Max(Head(values), max(Tail(values)))

\* str(d)[:10] for a date field value that is a str or a date
str_10(v) ==
    LET s == IF v.type = "date" THEN isoformat(v.value) ELSE v.value
    IN  SubSeq(s, 1, Min(10, Len(s)))

\* mutant: the scores start at 0
FEELING_MAP_zero_based ==
    [f \in {"Great", "Good", "Okay", "Tired", "Exhausted"} |->
        CASE f = "Great" -> 4 [] f = "Good" -> 3 [] f = "Okay" -> 2
          [] f = "Tired" -> 1 [] f = "Exhausted" -> 0]

FEELING_MAP ==
    [f \in {"Great", "Good", "Okay", "Tired", "Exhausted"} |->
        CASE f = "Great" -> 5 [] f = "Good" -> 4 [] f = "Okay" -> 3
          [] f = "Tired" -> 2 [] f = "Exhausted" -> 1]

RUNNING_TYPES == {"Running"}

GYM_TYPES == {"Gym-Strength", "Gym-Crossfit"}

TOUGH_FEELINGS == {"Tired", "Exhausted"}

\* TrainingWeek(): the dataclass defaults
TrainingWeek ==
    [label |-> <<>>, sessions |-> 0, active_days |-> 0, running_km |-> 0,
     longest_run_km |-> 0, running_count |-> 0, gym_sessions |-> 0,
     gym_volume |-> 0, gym_volume_per_session |-> 0, feeling_avg |-> 0,
     feeling_pct |-> 0, tough_sessions |-> 0, total_duration_min |-> 0]

\* tw.total_duration_min += int(duration), over all records
total_minutes(recs) ==
    SumSeq([i \in 1..Len(recs) |-> int(or_zero(recs[i].duration_min))])

\* the records that pass 'if training_type in GYM_TYPES'
gym_records(recs) ==
    SelectSeq(recs, LAMBDA r : or_empty(r.training_type) \in GYM_TYPES)

\* the records that pass 'if training_type in RUNNING_TYPES'
running_records(recs) ==
    SelectSeq(recs, LAMBDA r : or_empty(r.training_type) \in RUNNING_TYPES)

\* feeling_pct is a float rounded to 0 decimals, held in tenths like the
\* other floats
calculate_training_week(recs, label) ==
    LET active_dates == {str_10(recs[i].date) :
                            i \in {k \in 1..Len(recs) : truthy(recs[k].date)}}
        runs == running_records(recs)
        gyms == gym_records(recs)
        run_distances == [i \in 1..Len(runs) |-> or_zero(runs[i].distance_km)]
        gym_volumes == [i \in 1..Len(gyms) |-> or_zero(gyms[i].volume_kg)]
        felt == SelectSeq(recs, LAMBDA r : truthy(r.feeling))
        scored == SelectSeq(felt, LAMBDA r : r.feeling.value \in DOMAIN FEELING_MAP)
        feeling_scores == [i \in 1..Len(scored) |-> FEELING_MAP[scored[i].feeling.value]]
        tough == SelectSeq(felt, LAMBDA r : r.feeling.value \in TOUGH_FEELINGS)
        gym_volume == Round(SumSeq(gym_volumes), 1)
        good_great == Len(SelectSeq(feeling_scores, LAMBDA f : f >= 4))
    IN  [label |-> label,
         sessions |-> Len(recs),
         active_days |-> Cardinality(active_dates),
         running_km |-> Round(SumSeq(run_distances), 1),
         longest_run_km |->
             IF run_distances # <<>> THEN Round(max(run_distances), 1) ELSE 0,
         running_count |-> Len(runs),
         gym_sessions |-> Len(gyms),
         gym_volume |-> gym_volume,
         gym_volume_per_session |->
             IF Len(gyms) > 0 THEN Round(gym_volume, Len(gyms)) ELSE 0,
         feeling_avg |->
             _safe_avg([i \in 1..Len(feeling_scores) |-> 10 * feeling_scores[i]]),
         feeling_pct |->
             IF feeling_scores # <<>>
             THEN 10 * Round(good_great * 100, Len(feeling_scores)) ELSE 0,
         tough_sessions |-> Len(tough),
         total_duration_min |-> total_minutes(recs)]

\* RunningPeriod(): the dataclass defaults.  power_to_hr_ratio and
\* avg_pace_min_per_km are rounded to 2 decimals and held in hundredths.
RunningPeriodDefaults ==
    [label |-> <<>>, run_count |-> 0, total_km |-> 0, total_duration_min |-> 0,
     avg_power_w |-> 0, total_rss |-> 0, avg_rss_per_run |-> 0,
     avg_critical_power_w |-> 0, avg_cadence_spm |-> 0,
     avg_stride_length_m |-> 0, avg_ground_contact_ms |-> 0,
     avg_vertical_oscillation_cm |-> 0, avg_leg_spring_stiffness |-> 0,
     avg_rpe |-> 0, avg_hr |-> 0, power_to_hr_ratio |-> 0,
     avg_pace_min_per_km |-> 0]

\* mutant: every record of the period counts as a run
runs_of_all(recs) == recs

\* runs = [r for r in records if r.get("training_type") in RUNNING_TYPES]
runs_of(recs) ==
    SelectSeq(recs, LAMBDA r : /\ r.training_type.type # "NoneType"
                               /\ r.training_type.value \in RUNNING_TYPES)

\* round(avg_power_w / avg_hr, 2) if avg_hr > 0 and avg_power_w > 0 else 0.0:
\* both averages in tenths, the ratio in hundredths
power_to_hr_ratio_of(avg_power_w, avg_hr) ==
    IF avg_hr > 0 /\ avg_power_w > 0 THEN Round(100 * avg_power_w, avg_hr)
    ELSE 0

\* mutant: the division is protected by a denominator of at least 0.1 km
avg_pace_clamped(total_duration_min, total_km) ==
    Round(1000 * total_duration_min, Max(total_km, 1))

\* round(total_duration_min / total_km, 2) if total_km > 0 else 0.0: whole
\* minutes over tenths of km, the pace in hundredths
avg_pace_of(total_duration_min, total_km) ==
    IF total_km > 0 THEN Round(1000 * total_duration_min, total_km) ELSE 0

calculate_running_period(recs, label) ==
    LET runs == runs_of(recs)
        rp == [RunningPeriodDefaults EXCEPT !.label = label,
                                            !.run_count = Len(runs)]
    IN  IF runs = <<>> THEN rp
        ELSE
          LET total_km ==
                  Round(SumSeq([i \in 1..Len(runs) |->
                                   or_zero(runs[i].distance_km)]), 1)
              total_duration_min == total_minutes(runs)
              total_rss == Round(SumSeq(present_values(runs, "rss")), 1)
              avg_power_w == _safe_avg(present_values(runs, "power_w"))
              avg_hr == _safe_avg(present_values(runs, "avg_hr"))
          IN  [rp EXCEPT
                 !.total_km = total_km,
                 !.total_duration_min = total_duration_min,
                 !.total_rss = total_rss,
                 !.avg_rss_per_run =
                     IF Len(runs) # 0 THEN Round(total_rss, Len(runs)) ELSE 0,
                 !.avg_power_w = avg_power_w,
                 !.avg_critical_power_w =
                     _safe_avg(present_values(runs, "critical_power_w")),
                 !.avg_cadence_spm =
                     _safe_avg(present_values(runs, "cadence_spm")),
                 !.avg_stride_length_m =
                     _safe_avg(present_values(runs, "stride_length_m")),
                 !.avg_ground_contact_ms =
                     _safe_avg(present_values(runs, "ground_contact_ms")),
                 !.avg_vertical_oscillation_cm =
                     _safe_avg(present_values(runs, "vertical_oscillation_cm")),
                 !.avg_leg_spring_stiffness =
                     _safe_avg(present_values(runs, "leg_spring_stiffness")),
                 !.avg_rpe = _safe_avg(present_values(runs, "rpe")),
                 !.avg_hr = avg_hr,
                 !.power_to_hr_ratio = power_to_hr_ratio_of(avg_power_w, avg_hr),
                 !.avg_pace_min_per_km =
                     avg_pace_of(total_duration_min, total_km)]

\* counts[v] = counts.get(v, 0) + 1 on a dict held as the list of its
\* (key, count) entries in insertion order
count_value(counts, v) ==
    IF \E k \in 1..Len(counts) : counts[k].key = v
    THEN [k \in 1..Len(counts) |->
             IF counts[k].key = v
             THEN [counts[k] EXCEPT !.count = @ + 1] ELSE counts[k]]
    ELSE Append(counts, [key |-> v, count |-> 1])

\* the for loop of _most_common over values[i..]
RECURSIVE count_values(_, _, _)
count_values(values, i, counts) ==
    IF i > Len(values) THEN counts
    ELSE count_values(values, i + 1, count_value(counts, values[i]))

\* mutant: a later key with an equal count replaces the best one
RECURSIVE max_by_count_last(_, _, _)
max_by_count_last(counts, i, best) ==
    IF i > Len(counts) THEN best.key
    ELSE max_by_count_last(counts, i + 1,
                           IF counts[i].count >= best.count THEN counts[i]
                           ELSE best)

\* max(counts, key=lambda k: counts[k]) over the entries counts[i..]: max
\* walks the keys in insertion order and keeps the best one seen unless a
\* later key is strictly greater
RECURSIVE max_by_count(_, _, _)
max_by_count(counts, i, best) ==
    IF i > Len(counts) THEN best.key
    ELSE max_by_count(counts, i + 1,
                      IF counts[i].count > best.count THEN counts[i]
                      ELSE best)

_most_common(values) ==
    IF values = <<>> THEN ""
    ELSE LET counts == count_values(values, 1, <<>>)
         IN  max_by_count(counts, 2, counts[1])

\* how many records have this status ('status = r.get("status") or ""')
status_days(recs, status) ==
    Len(SelectSeq(recs, LAMBDA r : or_empty(r.status) = status))

calculate_health_week(recs, label) ==
    LET sleep_qualities ==
            LET having == SelectSeq(recs, LAMBDA r : truthy(r.sleep_quality))
            IN  [i \in 1..Len(having) |-> having[i].sleep_quality.value]
    IN  [label |-> label,
         avg_sleep_hours |-> _safe_avg(present_values(recs, "sleep_hours")),
         sleep_quality_mode |-> _most_common(sleep_qualities),
         avg_resting_hr |-> _safe_avg(present_values(recs, "resting_hr")),
         avg_steps |-> _safe_avg(present_values(recs, "steps")),
         avg_body_battery |-> _safe_avg(present_values(recs, "body_battery")),
         sick_days |-> status_days(recs, "Sick"),
         injured_days |-> status_days(recs, "Injured"),
         rest_days |-> status_days(recs, "Rest Day"),
         entries |-> Len(recs)]

----------------------------------------------------------------------------
(* Insight text: update_dashboard.py, _format_num and the themed insight   *)
(* generators.  A str is the sequence of its pieces (a literal piece, or   *)
(* one character of a formatted number), so that s + t is s \o t.          *)

\* str(n) for an int n >= 0: its decimal digits
RECURSIVE int_str(_)
int_str(n) ==
    IF n < 10 THEN <<digit(n)>> ELSE Append(int_str(n \div 10), digit(n % 10))

\* 10 ** k
RECURSIVE pow10(_)
pow10(k) == IF k = 0 THEN 1 ELSE 10 * pow10(k - 1)

\* the last k decimal digits of n, zero-padded
RECURSIVE last_digits(_, _)
last_digits(n, k) ==
    IF k = 0 THEN <<>> ELSE Append(last_digits(n \div 10, k - 1), digit(n % 10))

\* f"{value:.{decimals}f}" for the float value = units / scale, value >= 0:
\* the value rounded to that many decimals, all of them printed
format_fixed(units, scale, decimals) ==
    LET shown == Round(units * pow10(decimals), scale)
    IN  IF decimals = 0 THEN int_str(shown)
        ELSE int_str(shown \div pow10(decimals)) \o <<".">>
                 \o last_digits(shown, decimals)

\* the body of _format_num for the float value = units / scale
format_float(units, scale, decimals) ==
    IF units % scale = 0 THEN int_str(units \div scale)
    ELSE format_fixed(units, scale, decimals)

\* _format_num(value, decimals) for a value held in tenths
_format_num(value, decimals) == format_float(value, 10, decimals)

\* _format_num(value, decimals) for a value held in hundredths
\* (power_to_hr_ratio)
_format_num_hundredths(value, decimals) == format_float(value, 100, decimals)

\* the arrows U+2191, U+2193 and U+2192 are written by their code points
_trend_arrow(d) ==
    CASE d = "up" -> <<"U+2191">>
      [] d = "down" -> <<"U+2193">>
      [] d = "stable" -> <<"U+2192">>
      [] OTHER -> <<>>

\* "\n".join(lines)
RECURSIVE join_lines(_)
join_lines(lines) ==
    IF lines = <<>> THEN <<>>
    ELSE IF Len(lines) = 1 THEN lines[1]
    ELSE lines[1] \o <<"\n">> \o join_lines(Tail(lines))

\* [getattr(p, field) for p in periods[1:]]
prior_values(ps, field) == [i \in 1..(Len(ps) - 1) |-> ps[i + 1][field]]

\* the list [line] if cond else []: an 'if cond: lines.append(line)'
line_if(cond, line) == IF cond THEN <<line>> ELSE <<>>

generate_running_power_insight(ps) ==
    IF ps = <<>> \/ ps[1].run_count = 0 THEN <<"No running data this period.">>
    ELSE
      LET cur == ps[1]
          rss_per_run == _format_num(cur.avg_rss_per_run, 1)
          avg_power == _safe_avg(prior_values(ps, "avg_power_w"))
          avg_rss == _safe_avg(prior_values(ps, "total_rss"))
      IN  join_lines(
            << <<"Avg Power: ">> \o _format_num(cur.avg_power_w, 1) \o <<"W">>,
               <<"Total RSS: ">> \o _format_num(cur.total_rss, 1) \o <<" (">>
                   \o rss_per_run \o <<"/run)">> >>
            \o (IF Len(ps) > 1
                THEN << _trend_arrow(trend_direction(cur.avg_power_w, avg_power))
                            \o <<" Power vs prior: ">>
                            \o _format_num(avg_power, 1) \o <<"W avg">>,
                        _trend_arrow(trend_direction(cur.total_rss, avg_rss))
                            \o <<" Load vs prior: ">>
                            \o _format_num(avg_rss, 1) \o <<" RSS avg">> >>
                ELSE <<>>)
            \o line_if(cur.power_to_hr_ratio > 0,
                       <<"Power:HR ratio: ">>
                           \o _format_num_hundredths(cur.power_to_hr_ratio, 2)))

generate_running_biomechanics_insight(ps) ==
    IF ps = <<>> \/ ps[1].run_count = 0 THEN <<"No running biomechanics data.">>
    ELSE
      LET cur == ps[1]
          avg_cad == _safe_avg(prior_values(ps, "avg_cadence_spm"))
          avg_gct == _safe_avg(prior_values(ps, "avg_ground_contact_ms"))
          lines ==
            line_if(cur.avg_cadence_spm > 0,
                    <<"Cadence: ">> \o _format_num(cur.avg_cadence_spm, 1)
                        \o <<" spm">>)
            \o line_if(cur.avg_stride_length_m > 0,
                    <<"Stride: ">> \o _format_num(cur.avg_stride_length_m, 2)
                        \o <<"m">>)
            \o line_if(cur.avg_ground_contact_ms > 0,
                    <<"Ground Contact: ">>
                        \o _format_num(cur.avg_ground_contact_ms, 1) \o <<"ms">>)
            \o line_if(cur.avg_vertical_oscillation_cm > 0,
                    <<"Vert Oscillation: ">>
                        \o _format_num(cur.avg_vertical_oscillation_cm, 1)
                        \o <<"cm">>)
            \o line_if(cur.avg_leg_spring_stiffness > 0,
                    <<"Leg Spring: ">>
                        \o _format_num(cur.avg_leg_spring_stiffness, 1))
            \o line_if(Len(ps) > 1 /\ cur.avg_cadence_spm > 0 /\ avg_cad > 0,
                    _trend_arrow(trend_direction(cur.avg_cadence_spm, avg_cad))
                        \o <<" Cadence vs prior: ">>
                        \o _format_num(avg_cad, 1) \o <<" spm">>)
            \o line_if(Len(ps) > 1 /\ cur.avg_ground_contact_ms > 0
                          /\ avg_gct > 0,
                    _trend_arrow(trend_direction(cur.avg_ground_contact_ms,
                                                 avg_gct))
                        \o <<" GCT vs prior: ">>
                        \o _format_num(avg_gct, 1) \o <<"ms">>)
      IN  IF lines # <<>> THEN join_lines(lines)
          ELSE <<"No biomechanics data available.">>

generate_sleep_insight(hws) ==
    IF hws = <<>> \/ hws[1].entries = 0 THEN <<"No sleep data.">>
    ELSE
      LET cur == hws[1]
          avg_sleep == _safe_avg(prior_values(hws, "avg_sleep_hours"))
      IN  join_lines(
            << <<"Avg: ">> \o _format_num(cur.avg_sleep_hours, 1) \o <<"h">> >>
            \o line_if(cur.sleep_quality_mode # "",
                       <<"Quality: ", cur.sleep_quality_mode>>)
            \o line_if(Len(hws) > 1,
                       _trend_arrow(trend_direction(cur.avg_sleep_hours,
                                                    avg_sleep))
                           \o <<" vs prior avg ">>
                           \o _format_num(avg_sleep, 1) \o <<"h">>))

generate_hr_insight(hws) ==
    IF hws = <<>> \/ hws[1].entries = 0 THEN <<"No HR data.">>
    ELSE
      LET cur == hws[1]
          avg_hr == _safe_avg(prior_values(hws, "avg_resting_hr"))
          d == trend_direction(cur.avg_resting_hr, avg_hr)
          color_hint == IF d = "down" THEN "good"
                        ELSE IF d = "up" THEN "watch" ELSE "stable"
      IN  join_lines(
            << <<"Avg: ">> \o _format_num(cur.avg_resting_hr, 1)
                   \o <<" bpm">> >>
            \o line_if(Len(hws) > 1,
                       _trend_arrow(d) \o <<" vs prior avg ">>
                           \o _format_num(avg_hr, 1)
                           \o <<" bpm (", color_hint, ")">>))

generate_recovery_health_insight(hws) ==
    IF hws = <<>> \/ hws[1].entries = 0 THEN <<"No recovery data.">>
    ELSE
      LET cur == hws[1]
          avg_battery == _safe_avg(prior_values(hws, "avg_body_battery"))
          lines ==
            line_if(cur.avg_body_battery > 0,
                    <<"Body Battery: ">> \o _format_num(cur.avg_body_battery, 1))
            \o line_if(cur.avg_steps > 0,
                    <<"Avg Steps: ">> \o _format_num(cur.avg_steps, 0))
            \o line_if(cur.sick_days > 0,
                    <<"Sick days: ">> \o int_str(cur.sick_days))
            \o line_if(cur.rest_days > 0,
                    <<"Rest days: ">> \o int_str(cur.rest_days))
            \o line_if(Len(hws) > 1 /\ avg_battery > 0
                          /\ cur.avg_body_battery > 0,
                    _trend_arrow(trend_direction(cur.avg_body_battery,
                                                 avg_battery))
                        \o <<" Battery vs prior: ">>
                        \o _format_num(avg_battery, 1))
      IN  IF lines # <<>> THEN join_lines(lines)
          ELSE <<"No recovery data available.">>

\* str(x), and f"{x}", for the float x = units / scale, x >= 0, that has at
\* most one (scale 10) or two (scale 100) decimals: the shortest numeral
\* that reads back as x, which always has a decimal point
float_str(units, scale) ==
    int_str(units \div scale) \o <<".">>
        \o (IF scale = 100 /\ units % 10 # 0 THEN last_digits(units % 100, 2)
            ELSE <<digit(((units * 10) \div scale) % 10)>>)

\* sep.join(parts)
RECURSIVE join(_, _)
join(sep, parts) ==
    IF parts = <<>> THEN <<>>
    ELSE IF Len(parts) = 1 THEN parts[1]
    ELSE parts[1] \o <<sep>> \o join(sep, Tail(parts))

generate_training_takeaway(weeks) ==
    IF weeks = <<>> \/ weeks[1].sessions = 0
    THEN <<"No training data this week.">>
    ELSE
      LET cur == weeks[1]
          parts ==
            << int_str(cur.sessions) \o <<" sessions, ">>
                   \o int_str(cur.active_days) \o <<" active days">> >>
            \o line_if(cur.gym_volume > 0,
                       float_str(cur.gym_volume, 10) \o <<"kg gym volume">>)
            \o line_if(cur.running_km > 0,
                       float_str(cur.running_km, 10) \o <<"km running">>)
            \o line_if(cur.feeling_avg > 0,
                       <<"avg feeling ">> \o float_str(cur.feeling_avg, 10)
                           \o <<"/5">>)
      IN  <<"This week: ">> \o join(", ", parts) \o <<".">>

----------------------------------------------------------------------------
(* Chart data: generate_charts_data.py, build_charts_data.  The returned    *)
(* dict is a record; its "generated_at" entry, the wall-clock time of the  *)
(* call, is left out.                                                      *)

\* [date.fromisoformat(str(d)[:10]) for r in recs if (d := r.get("date"))]
record_dates(recs) ==
    LET dated == SelectSeq(recs, LAMBDA r : truthy(r.date))
    IN  [i \in 1..Len(dated) |-> fromisoformat(str_10(dated[i].date))]

\* min(all_dates) and max(all_dates)
min_date(ds) ==
    CHOOSE d \in {ds[i] : i \in 1..Len(ds)} :
        \A i \in 1..Len(ds) : date_le(d, ds[i])

max_date(ds) ==
    CHOOSE d \in {ds[i] : i \in 1..Len(ds)} :
        \A i \in 1..Len(ds) : date_le(ds[i], d)

\* mutant: the loop stops before the current week
RECURSIVE chart_weeks_before(_, _)
chart_weeks_before(monday, current_monday) ==
    IF ~date_le_strict(monday, current_monday) THEN <<>>
    ELSE <<period(monday, plus_days(monday, 6),
                  strftime_b_d(monday) \o <<EnDash>>
                      \o strftime_b_d(plus_days(monday, 6)))>>
         \o chart_weeks_before(plus_days(monday, 7), current_monday)

\* week_boundaries: the 'while monday <= current_monday' loop, oldest first
RECURSIVE chart_weeks(_, _)
chart_weeks(monday, current_monday) ==
    IF ~date_le(monday, current_monday) THEN <<>>
    ELSE <<period(monday, plus_days(monday, 6),
                  strftime_b_d(monday) \o <<EnDash>>
                      \o strftime_b_d(plus_days(monday, 6)))>>
         \o chart_weeks(plus_days(monday, 7), current_monday)

\* d = asdict(aggregate); d["week_start"] = week_start.isoformat()
with_week_start(aggregate, week_start) ==
    [f \in DOMAIN aggregate \cup {"week_start"} |->
        IF f = "week_start" THEN isoformat(week_start) ELSE aggregate[f]]

\* the keys of a record copied into "sessions" and into "health"
SessionKeys ==
    {"date", "name", "training_type", "duration_min", "distance_km",
     "volume_kg", "feeling", "avg_hr", "power_w", "rss", "critical_power_w",
     "cadence_spm", "stride_length_m", "ground_contact_ms",
     "vertical_oscillation_cm", "leg_spring_stiffness", "rpe", "source"}

HealthKeys ==
    {"date", "sleep_hours", "sleep_quality", "resting_hr", "steps",
     "body_battery"}

\* {key: r.get(key) for key in keys}
serialized(r, keys) ==
    [k \in keys |-> IF k \in DOMAIN r THEN r[k] ELSE PyNone]

\* the structure returned when no record has a date
EmptyChartsData ==
    [meta |-> [total_training |-> 0, total_health |-> 0,
               earliest |-> PyNone, latest |-> PyNone],
     sessions |-> <<>>, health |-> <<>>,
     weekly |-> [training |-> <<>>, health |-> <<>>, running |-> <<>>,
                 load |-> <<>>]]

build_charts_data(t_records, h_records, tdy) ==
    LET all_dates == record_dates(t_records) \o record_dates(h_records)
    IN  IF all_dates = <<>> THEN EmptyChartsData
        ELSE
          LET earliest == min_date(all_dates)
              latest == max_date(all_dates)
              first_monday == plus_days(earliest, 0 - weekday(earliest))
              current_monday == plus_days(tdy, 0 - weekday(tdy))
              boundaries == chart_weeks(first_monday, current_monday)
              n == Len(boundaries)
              starts == [i \in 1..n |-> boundaries[i].start]
              boundaries_rev == Reversed(boundaries)
              t_by_week == group_by_period(t_records, boundaries_rev)
              h_by_week == group_by_period(h_records, boundaries_rev)
              t_weeks == [i \in 1..n |->
                  calculate_training_week(t_by_week[i], boundaries_rev[i].label)]
              h_weeks == [i \in 1..n |->
                  calculate_health_week(h_by_week[i], boundaries_rev[i].label)]
              r_periods == [i \in 1..n |->
                  calculate_running_period(t_by_week[i],
                                           boundaries_rev[i].label)]
              r_chrono == Reversed(r_periods)
              t_chrono == Reversed(t_weeks)
              h_chrono == Reversed(h_weeks)
          IN  [meta |-> [total_training |-> Len(t_records),
                         total_health |-> Len(h_records),
                         earliest |-> PyStr(isoformat(earliest)),
                         latest |-> PyStr(isoformat(latest))],
               sessions |-> [i \in 1..Len(t_records) |->
                                serialized(t_records[i], SessionKeys)],
               health |-> [i \in 1..Len(h_records) |->
                              serialized(h_records[i], HealthKeys)],
               weekly |->
                 [training |-> [i \in 1..n |->
                                   with_week_start(t_chrono[i], starts[i])],
                  health |-> [i \in 1..n |->
                                 with_week_start(h_chrono[i], starts[i])],
                  running |-> [i \in 1..n |->
                                  with_week_start(r_chrono[i], starts[i])],
                  load |-> compute_rolling_acwr(r_chrono, starts)]]

----------------------------------------------------------------------------
(* Invocations in progress at the same time.  The eight analytics          *)
(* functions share nothing but their arguments: each call allocates its    *)
(* own local lists and its own result object, reads its argument list one  *)
(* element per step and writes only what it allocated.                     *)
----------------------------------------------------------------------------

Functions ==
    {"group_by_period", "calculate_training_week", "calculate_health_week",
     "calculate_running_period", "calculate_training_load",
     "compute_rolling_acwr", "detect_overreaching", "trend_direction"}

\* the list a call iterates over (trend_direction takes two floats, passed
\* by value)
iterated(f, recs, t_recs, h_recs, rps, hws) ==
    CASE f = "group_by_period" -> recs
      [] f \in {"calculate_training_week", "calculate_running_period"} -> t_recs
      [] f = "calculate_health_week" -> h_recs
      [] f \in {"calculate_training_load", "compute_rolling_acwr"} -> rps
      [] f = "detect_overreaching" -> hws
      [] OTHER -> <<>>

\* the mutant: one set of local lists for every call
frame_of_shared(p) == 1

\* the local lists of invocation p: allocated by the call itself
frame_of(p) == p

\* the locals at entry: nothing read, one empty bucket per period
new_frame(f, ps) ==
    [seen |-> <<>>,
     buckets |-> IF f = "group_by_period" THEN [k \in 1..Len(ps) |-> <<>>]
                 ELSE <<>>]

\* one iteration of the call's loop over element e
read(f, fr, e, ps) ==
    [seen |-> Append(fr.seen, e),
     buckets |-> IF f = "group_by_period"
                 THEN group_loop(<<e>>, ps, 1, fr.buckets)
                 ELSE fr.buckets]

\* the value returned from the locals, and from the arguments read at return
return_value(f, fr, starts, ld, cur, prev) ==
    CASE f = "group_by_period" -> fr.buckets
      [] f = "calculate_training_week" ->
            calculate_training_week(fr.seen, <<"W", 1>>)
      [] f = "calculate_running_period" ->
            calculate_running_period(fr.seen, <<"W", 1>>)
      [] f = "calculate_health_week" ->
            calculate_health_week(fr.seen, <<"W", 1>>)
      [] f = "calculate_training_load" -> calculate_training_load(fr.seen)
      [] f = "compute_rolling_acwr" -> compute_rolling_acwr(fr.seen, starts)
      [] f = "detect_overreaching" -> detect_overreaching(ld, fr.seen)
      [] OTHER -> trend_direction(cur, prev)

NoCall == [fn |-> "", k |-> 0, overlapped |-> FALSE]
NoFrame == [seen |-> <<>>, buckets |-> <<>>]
NoResult == [fn |-> "", value |-> <<>>, overlapped |-> FALSE]

----------------------------------------------------------------------------
(* Pages: update_dashboard.py, find_or_create_subpage, clear_page_blocks,  *)
(* write_dashboard and the writing half of main.  An id and a title are    *)
(* sequences of pieces, so that replace("-", "") and title equality act on *)
(* them.  The Notion workspace is the record                               *)
(*   children: the undeleted child blocks of each page, in order,          *)
(*   created:  the create_page_under_page calls made,                      *)
(*   deleted:  the ids given to delete_block,                              *)
(*   serial:   the number of ids the service has handed out.               *)
----------------------------------------------------------------------------

\* block["id"].replace("-", "")
strip_dashes(id) == SelectSeq(id, LAMBDA c : c # "-")

Block(id, type, block_title, page) ==
    [id |-> id, type |-> type, title |-> block_title, page |-> page]

\* a child_page block: its id is the id of the page
ChildPage(id, block_title) == Block(id, "child_page", block_title, <<>>)

\* a paragraph that mentions a page
Mention(page) == Block(<<>>, "paragraph", <<>>, page)

\* a block without a title and without a mention
Plain(type) == Block(<<>>, type, <<>>, <<>>)

get_block_children(nt, page) == nt.children[page]

\* the mutant: the title only has to start with the requested one
is_subpage_prefix(block, wanted) ==
    /\ block.type = "child_page"
    /\ Len(wanted) <= Len(block.title)
    /\ SubSeq(block.title, 1, Len(wanted)) = wanted

\* block.get("type") == "child_page" and block["child_page"]["title"] == title
is_subpage(block, wanted) ==
    block.type = "child_page" /\ block.title = wanted

\* the index of the first block the loop returns from, 0 when it falls through
RECURSIVE first_subpage(_, _, _)
first_subpage(children, wanted, i) ==
    IF i > Len(children) THEN 0
    ELSE IF is_subpage(children[i], wanted) THEN i
    ELSE first_subpage(children, wanted, i + 1)

\* the id the service gives to its n-th new block or page
service_id(n) == <<"n", "-">> \o int_str(n)

\* NotionClient.create_page_under_page: a new, empty page whose child_page
\* block is appended to the parent's children
create_page_under_page(nt, parent, wanted) ==
    LET id == service_id(nt.serial + 1)
    IN  [page |-> [id |-> id],
         notion |->
           [children |->
               [p \in DOMAIN nt.children \cup {strip_dashes(id)} |->
                   IF p = strip_dashes(id) THEN <<>>
                   ELSE IF p = parent
                        THEN Append(nt.children[p], ChildPage(id, wanted))
                        ELSE nt.children[p]],
            created |-> Append(nt.created,
                               [parent |-> parent, title |-> wanted]),
            deleted |-> nt.deleted,
            serial |-> nt.serial + 1]]

\* returns the page id and the workspace after the call
find_or_create_subpage(nt, parent_page_id, wanted) ==
    LET children == get_block_children(nt, parent_page_id)
        hit == first_subpage(children, wanted, 1)
    IN  IF hit # 0
        THEN [page_id |-> strip_dashes(children[hit].id), notion |-> nt]
        ELSE LET made == create_page_under_page(nt, parent_page_id, wanted)
             IN  [page_id |-> strip_dashes(made.page.id),
                  notion |-> made.notion]

\* NotionClient.delete_block: the block is archived, and a page with it
delete_block(nt, block_id) ==
    [nt EXCEPT !.children =
                  [p \in DOMAIN @ |->
                      SelectSeq(@[p], LAMBDA b : b.id # block_id)],
               !.deleted = @ \cup {block_id}]

RECURSIVE delete_all(_, _, _)
delete_all(nt, children, i) ==
    IF i > Len(children) THEN nt
    ELSE delete_all(delete_block(nt, children[i].id), children, i + 1)

\* the workspace after the call (the count returned is only logged)
clear_page_blocks(nt, page) ==
    delete_all(nt, get_block_children(nt, page), 1)

\* NotionClient.append_block_children: the blocks get their ids and follow
\* the page's children
append_block_children(nt, page, new_blocks) ==
    [nt EXCEPT !.children[page] =
                  @ \o [i \in 1..Len(new_blocks) |->
                           [new_blocks[i] EXCEPT !.id = service_id(nt.serial + i)]],
               !.serial = @ + Len(new_blocks)]

write_dashboard(nt, page, new_blocks) ==
    append_block_children(nt, page, new_blocks)

\* data.subpage_ids[title] = page_id: a dict keeps the position of a key
\* it already holds
dict_set(d, key, value) ==
    IF \E i \in 1..Len(d) : d[i][1] = key
    THEN [i \in 1..Len(d) |-> IF d[i][1] = key THEN <<key, value>> ELSE d[i]]
    ELSE Append(d, <<key, value>>)

\* the Reports section of build_full_dashboard; the other sections are the
\* heading, column and toggle blocks around it
build_full_dashboard(ids) ==
    <<Plain("heading_1"), Plain("column_list"), Plain("divider")>>
    \o (IF ids # <<>>
        THEN <<Plain("heading_2")>>
             \o [i \in 1..Len(ids) |-> Mention(ids[i][2])]
             \o <<Plain("divider")>>
        ELSE <<>>)
    \o <<Plain("toggle")>>

\* the blocks of a report page
build_subpage_dashboard(wanted) ==
    <<Block(<<>>, "heading_1", wanted, <<>>), Plain("column_list")>>

----------------------------------------------------------------------------
(* Stryd sync: stryd_sync.py, sync_activities.  An activity carries its    *)
(* "timestamp" (seconds since the epoch, UTC) and its "average_power"; a   *)
(* page of the Training Sessions database carries its Date as the number   *)
(* of the day since the epoch, its Source, Training Type, External ID and  *)
(* Power (W).                                                              *)
----------------------------------------------------------------------------

SecondsPerDay == 86400

\* extract_timestamp(activity).date(): the UTC day of the timestamp
extract_date(activity) == activity.timestamp \div SecondsPerDay

\* f"stryd-{activity.get('timestamp', '')}"
external_id_of(activity) == <<"stryd-", activity.timestamp>>

\* _safe_round: None for None and for values that are not positive
safe_round(val) ==
    IF val.type = "NoneType" THEN PyNone
    ELSE IF val.value > 0 THEN val ELSE PyNone

\* extract_power_metrics: of the metrics, the power decides what follows
extract_power_metrics(activity) ==
    [power |-> safe_round(activity.average_power)]

\* NotionClient.check_existing: some page has this External ID
check_existing(db, external_id) ==
    \E i \in 1..Len(db) : db[i].external_id = external_id

\* the query of find_garmin_match: Date, Source and Training Type
garmin_results(db, day) ==
    SelectSeq(db, LAMBDA pg : /\ pg.date = day /\ pg.source = "Garmin"
                              /\ pg.training_type = "Running")

\* the id of the first Garmin running page of the activity's day, 0 for None
find_garmin_match(db, activity) ==
    LET results == garmin_results(db, extract_date(activity))
    IN  IF results = <<>> THEN 0 ELSE results[1].id

\* build_stryd_update_properties: only metrics that are not None; the
\* External ID is not among the properties
build_stryd_update_properties(metrics) ==
    IF metrics.power.type = "NoneType" THEN {}
    ELSE {<<"Power (W)", metrics.power>>}

\* build_stryd_create_properties
build_stryd_create_properties(activity, metrics) ==
    [date |-> extract_date(activity), source |-> "Stryd",
     training_type |-> "Running", external_id |-> external_id_of(activity),
     power |-> metrics.power]

\* NotionClient.create_page: the page joins the database under a new id
create_page(db, props) ==
    Append(db, [id |-> Len(db) + 1, date |-> props.date,
                source |-> props.source,
                training_type |-> props.training_type,
                external_id |-> props.external_id, power |-> props.power])

\* NotionClient.update_page: the given properties are set, the others kept
update_page(db, id, props) ==
    [i \in 1..Len(db) |->
        IF db[i].id = id
        THEN [db[i] EXCEPT !.power =
                 IF \E pr \in props : pr[1] = "Power (W)"
                 THEN (CHOOSE pr \in props : pr[1] = "Power (W)")[2]
                 ELSE @]
        ELSE db[i]]

\* the loop of sync_activities from activity i on; st holds the database,
\* the calls issued and the three counters
RECURSIVE sync_loop(_, _, _, _)
sync_loop(acts, i, run, st) ==
    IF i > Len(acts) THEN st
    ELSE
      LET activity == acts[i]
          external_id == external_id_of(activity)
          metrics == extract_power_metrics(activity)
          garmin_page_id == find_garmin_match(st.db, activity)
          update_props == build_stryd_update_properties(metrics)
          skip == [st EXCEPT !.skipped = @ + 1]
          call(op, page) ==
              Append(st.calls, [run |-> run, op |-> op,
                                external_id |-> external_id, page |-> page])
      IN  IF check_existing(st.db, external_id)
          THEN sync_loop(acts, i + 1, run, skip)
          ELSE IF metrics.power.type = "NoneType"
          THEN sync_loop(acts, i + 1, run, skip)
          ELSE IF garmin_page_id # 0
          THEN IF update_props # {}
               THEN sync_loop(acts, i + 1, run,
                        [st EXCEPT !.db = update_page(@, garmin_page_id,
                                                      update_props),
                                   !.calls = call("update_page",
                                                  garmin_page_id),
                                   !.updated = @ + 1])
               ELSE sync_loop(acts, i + 1, run, skip)
          ELSE sync_loop(acts, i + 1, run,
                   [st EXCEPT !.db = create_page(@,
                                        build_stryd_create_properties(
                                            activity, metrics)),
                              !.calls = call("create_page", Len(st.db) + 1),
                              !.created = @ + 1])

\* one run: the state after the loop
sync_activities(acts, run, db, calls) ==
    sync_loop(acts, 1, run,
              [db |-> db, calls |-> calls, updated |-> 0, created |-> 0,
               skipped |-> 0])

----------------------------------------------------------------------------
(* Inputs explored *)

\* total_rss values in tenths: 0, 8.0, 10.0, 10.5, 13.0, 15.0
RssValues == {0, 80, 100, 105, 130, 150}

\* RunningPeriod(label=..., total_rss=...); the other fields are not read
\* by the load analysis
RunningPeriod(label, total_rss) == [label |-> label, total_rss |-> total_rss]

RunningPeriodLists ==
    {[i \in 1..Len(vs) |-> RunningPeriod(<<"W", i>>, vs[i])] :
        vs \in BoundedSeq(RssValues, MaxPeriods)}

\* the Mondays from 2025-12-29 on
WeekStarts(n) == [k \in 1..n |-> plus_days(date(2025, 12, 29), 7 * (k - 1))]

\* acwr values in hundredths around the 1.3 threshold
AcwrValues == {129, 130, 150}

LoadValues ==
    {[TrainingLoad EXCEPT !.acwr = a, !.load_status = load_status_of(a)] :
        a \in AcwrValues}

\* HealthWeek(): the dataclass defaults
HealthWeek ==
    [label |-> <<>>, avg_sleep_hours |-> 0, sleep_quality_mode |-> "",
     avg_resting_hr |-> 0, avg_steps |-> 0, avg_body_battery |-> 0,
     sick_days |-> 0, injured_days |-> 0, rest_days |-> 0, entries |-> 0]

\* current week: body battery 0 / 63.0 / 70.0, sleep 0 / 6.3 / 7.0 h,
\* resting HR 0 / 55.0 / 60.0
CurrentHealthWeeks ==
    {[HealthWeek EXCEPT !.avg_body_battery = b, !.avg_sleep_hours = s,
                        !.avg_resting_hr = h] :
        b \in {0, 630, 700}, s \in {0, 63, 70}, h \in {0, 550, 600}}

\* prior weeks: body battery 0 / 70.0, sleep 0 / 7.0 h, resting HR 0 / 50.0
PriorHealthWeeks ==
    {[HealthWeek EXCEPT !.avg_body_battery = b, !.avg_sleep_hours = s,
                        !.avg_resting_hr = h] :
        b \in {0, 700}, s \in {0, 70}, h \in {0, 500}}

HealthWeekLists ==
    {<<>>} \cup
    {<<c>> \o ps : c \in CurrentHealthWeeks,
                     ps \in BoundedSeq(PriorHealthWeeks, MaxHealthWeeks - 1)}

\* reference dates: every day of a leap year, a common year, a century
\* leap year and a century common year
RefYears == {2000, 2024, 2025, 2100}

RefDates ==
    {date(y, m, d) : y \in RefYears, m \in 1..12, d \in 1..31} \cap
    {dt \in [year : RefYears, month : 1..12, day : 1..31] :
        dt.day <= monthrange_days(dt.year, dt.month)}

PeriodTypes == {"week", "month", "quarter", "year"}

\* three consecutive days across a month boundary
GroupDays == {date(2026, 1, 31), date(2026, 2, 1), date(2026, 2, 2)}

DateFieldValues ==
    {PyNone} \cup {PyStr(isoformat(d)) : d \in GroupDays}
             \cup {PyDate(d) : d \in GroupDays}

RecordLists ==
    {[i \in 1..Len(ds) |-> [name |-> i, date |-> ds[i]]] :
        ds \in BoundedSeq(DateFieldValues, MaxRecords)}

\* any (start, end) pair, overlapping, repeated or empty (start > end)
GroupPeriodLists ==
    {[i \in 1..Len(ps) |-> period(ps[i][1], ps[i][2], <<"P", i>>)] :
        ps \in BoundedSeq(GroupDays \X GroupDays, MaxGroupPeriods)}

\* values of trend_direction's arguments, in tenths: around a mean of 100.0
\* and of -100.0, at 5% and one tenth either side of it; every value is a
\* multiple of 0.5, which binary floating point holds exactly
TrendValues ==
    {-1100, -1050, -1000, -950, -900, 0, 5, 900, 945, 950, 955, 1000, 1020,
     1045, 1050, 1055, 1100}

\* extract_training_props of a page without properties: every field None
TrainingRecord ==
    [date |-> PyNone, training_type |-> PyNone, duration_min |-> PyNone,
     distance_km |-> PyNone, volume_kg |-> PyNone, feeling |-> PyNone,
     avg_hr |-> PyNone, power_w |-> PyNone, rss |-> PyNone,
     critical_power_w |-> PyNone, cadence_spm |-> PyNone,
     stride_length_m |-> PyNone, ground_contact_ms |-> PyNone,
     vertical_oscillation_cm |-> PyNone, leg_spring_stiffness |-> PyNone,
     rpe |-> PyNone]

\* the date strings of the records: two days, one also with a time of day
Day1 == PyStr(isoformat(date(2026, 2, 3)))

Day1Morning ==
    PyStr(isoformat(date(2026, 2, 3)) \o <<"T", "0", "7", ":", "3", "0">>)

Day2 == PyStr(isoformat(date(2026, 2, 4)))

\* a run with every metric: 45 min, 8.0 km, 250 W, RSS 80, 155 bpm
RunFull ==
    [TrainingRecord EXCEPT
        !.date = Day1, !.training_type = PyStr("Running"),
        !.duration_min = PyFloat(450), !.distance_km = PyFloat(80),
        !.volume_kg = PyFloat(0), !.feeling = PyStr("Good"),
        !.avg_hr = PyFloat(1550), !.power_w = PyFloat(2500),
        !.rss = PyFloat(800), !.critical_power_w = PyFloat(2400),
        !.cadence_spm = PyFloat(1780), !.stride_length_m = PyFloat(10),
        !.ground_contact_ms = PyFloat(2150),
        !.vertical_oscillation_cm = PyFloat(70),
        !.leg_spring_stiffness = PyFloat(105), !.rpe = PyFloat(60)]

\* a second run with fractional values: 30.5 min, 10.5 km, RSS 100.5
RunFraction ==
    [TrainingRecord EXCEPT
        !.date = Day1Morning, !.training_type = PyStr("Running"),
        !.duration_min = PyFloat(305), !.distance_km = PyFloat(105),
        !.feeling = PyStr("Tired"),
        !.avg_hr = PyFloat(1600), !.power_w = PyFloat(2000),
        !.rss = PyFloat(1005), !.critical_power_w = PyFloat(2405),
        !.cadence_spm = PyFloat(1805), !.stride_length_m = PyFloat(15),
        !.ground_contact_ms = PyFloat(2200),
        !.vertical_oscillation_cm = PyFloat(75),
        !.leg_spring_stiffness = PyFloat(100), !.rpe = PyFloat(75)]

\* a run logged by hand: duration and power, no distance, no heart rate
RunPartial ==
    [TrainingRecord EXCEPT
        !.date = Day2, !.training_type = PyStr("Running"),
        !.duration_min = PyFloat(500), !.distance_km = PyFloat(0),
        !.feeling = PyStr("Great"), !.power_w = PyFloat(2555)]

\* a run of which nothing was measured
RunNull ==
    [TrainingRecord EXCEPT !.date = Day2, !.training_type = PyStr("Running")]

GymStrength ==
    [TrainingRecord EXCEPT
        !.date = Day1, !.training_type = PyStr("Gym-Strength"),
        !.duration_min = PyFloat(600), !.distance_km = PyFloat(0),
        !.volume_kg = PyFloat(50000), !.feeling = PyStr("Great")]

GymCrossfit ==
    [TrainingRecord EXCEPT
        !.date = Day2, !.training_type = PyStr("Gym-Crossfit"),
        !.duration_min = PyFloat(405), !.volume_kg = PyFloat(30005),
        !.feeling = PyStr("Exhausted")]

\* a gym session of which nothing was measured
GymNull ==
    [TrainingRecord EXCEPT
        !.date = Day1, !.training_type = PyStr("Gym-Strength")]

\* a session of another type that has a duration, a distance and a volume
Mobility ==
    [TrainingRecord EXCEPT
        !.date = Day2, !.training_type = PyStr("Mobility"),
        !.duration_min = PyFloat(205), !.distance_km = PyFloat(20),
        !.volume_kg = PyFloat(1000), !.feeling = PyStr("Okay"),
        !.avg_hr = PyFloat(1100), !.rss = PyFloat(300)]

\* a session without a training type
Untyped ==
    [TrainingRecord EXCEPT
        !.date = Day1, !.duration_min = PyFloat(150),
        !.distance_km = PyFloat(30), !.volume_kg = PyFloat(500),
        !.feeling = PyStr("Good"), !.power_w = PyFloat(1500)]

TrainingRecords ==
    {TrainingRecord, RunFull, RunFraction, RunPartial, RunNull, GymStrength,
     GymCrossfit, GymNull, Mobility, Untyped}

TrainingBuckets == BoundedSeq(TrainingRecords, MaxBucket)

\* extract_health_props of a page without properties
HealthRecord ==
    [date |-> PyNone, sleep_hours |-> PyNone, sleep_quality |-> PyNone,
     resting_hr |-> PyNone, steps |-> PyNone, body_battery |-> PyNone,
     status |-> PyNone]

HealthGood ==
    [HealthRecord EXCEPT
        !.date = Day1, !.sleep_hours = PyFloat(70),
        !.sleep_quality = PyStr("GOOD"), !.resting_hr = PyFloat(550),
        !.steps = PyFloat(80000), !.body_battery = PyFloat(650),
        !.status = PyStr("Normal")]

HealthExcellent ==
    [HealthRecord EXCEPT
        !.date = Day2, !.sleep_hours = PyFloat(80),
        !.sleep_quality = PyStr("EXCELLENT"), !.resting_hr = PyFloat(520),
        !.steps = PyFloat(100010), !.body_battery = PyFloat(800),
        !.status = PyStr("Normal")]

HealthFair ==
    [HealthRecord EXCEPT
        !.date = Day2, !.sleep_hours = PyFloat(65),
        !.sleep_quality = PyStr("FAIR"), !.steps = PyFloat(50000),
        !.status = PyStr("Rest Day")]

\* a day with a status and a sleep quality but no measurement
HealthSick ==
    [HealthRecord EXCEPT
        !.date = Day1, !.sleep_quality = PyStr("FAIR"),
        !.status = PyStr("Sick")]

\* a day with heart rate and body battery only
HealthInjured ==
    [HealthRecord EXCEPT
        !.date = Day1, !.resting_hr = PyFloat(605),
        !.body_battery = PyFloat(400), !.status = PyStr("Injured")]

HealthRecords ==
    {HealthRecord, HealthGood, HealthExcellent, HealthFair, HealthSick,
     HealthInjured}

HealthBuckets == BoundedSeq(HealthRecords, MaxBucket)

\* lists of weekly buckets, current week first.  The generators take a list
\* of any length (the pipeline passes four weeks, the tests none to two).
\* The record numbers are multiples of 0.5, so a prior week's average and the
\* average over the prior weeks are exact binary floats within these bounds.
WeekBuckets(recs) ==
    UNION {{w \in [1..k -> BoundedSeq(recs, MaxCurrent)] :
               \A i \in 2..k : Len(w[i]) <= MaxPrior} : k \in 0..MaxWeeks}

TrainingByWeek == WeekBuckets(TrainingRecords)
HealthByWeek == WeekBuckets(HealthRecords)

\* the label of week i of get_week_boundaries, current week first
WeekLabel(i) == <<"W", i>>

\* date fields of the records given to build_charts_data: none, a Saturday,
\* the Monday after it and the Monday a week later (the sync scripts write
\* date-only ISO strings)
ChartDates ==
    {PyNone} \cup {PyStr(isoformat(d)) :
                      d \in {date(2026, 1, 31), date(2026, 2, 2),
                             date(2026, 2, 9)}}

ChartTrainingRecords ==
    {[r EXCEPT !.date = d] : r \in {RunFull, GymStrength}, d \in ChartDates}

ChartHealthRecords == {[HealthGood EXCEPT !.date = d] : d \in ChartDates}

\* today: before every record, in the week of the first, after the last
ChartTodays == {date(2026, 1, 25), date(2026, 2, 1), date(2026, 2, 10)}

----------------------------------------------------------------------------
(* Specifications: one per component; the inputs are drawn by Init and the *)
(* action is the call.                                                     *)

LoadIdle ==
    /\ running_periods = <<>> /\ week_starts = <<>>
    /\ tl = TrainingLoad /\ load_data = <<>>

OverreachIdle == load = TrainingLoad /\ health_weeks = <<>> /\ warnings = <<>>

PeriodIdle ==
    /\ today = date(2026, 2, 8) /\ period_type = "week" /\ count = 0
    /\ periods = <<>>

GroupIdle == records = <<>> /\ group_periods = <<>> /\ buckets = <<>>

TrendIdle == current_value = 0 /\ previous_avg = 0 /\ direction = ""

AggregateIdle ==
    /\ training_records = <<>> /\ training_week = TrainingWeek
    /\ running_period = RunningPeriodDefaults
    /\ health_records = <<>> /\ health_week = HealthWeek

InsightIdle ==
    /\ training_by_week = <<>> /\ health_by_week = <<>>
    /\ training_weeks = <<>>
    /\ running_power_insight = <<>> /\ running_biomechanics_insight = <<>>
    /\ health_sleep_insight = <<>> /\ health_hr_insight = <<>>
    /\ health_recovery_insight = <<>> /\ training_takeaway = <<>>

ChartsIdle == charts_data = EmptyChartsData

Invocations == 1..MaxInvocations

ConcurrentIdle ==
    /\ invocation = [p \in Invocations |-> NoCall]
    /\ frames = [p \in Invocations |-> NoFrame]
    /\ returned = [p \in Invocations |-> NoResult]

DashboardPageId == <<"d", "b">>

\* a workspace that holds the dashboard page, without blocks
EmptyNotion ==
    [children |-> [p \in {DashboardPageId} |-> <<>>], created |-> <<>>,
     deleted |-> {}, serial |-> 0]

PageIdle ==
    /\ notion = EmptyNotion /\ title = <<>> /\ page_id = <<>>
    /\ subpage_ids = <<>> /\ subpage_calls = 0

StrydIdle ==
    /\ activities = <<>> /\ training_db = <<>> /\ sync_calls = <<>>
    /\ sync_counts = <<0, 0, 0>> /\ sync_runs = 0

\* ---- training load ----
InitLoad ==
    /\ pc = "start"
    /\ running_periods \in RunningPeriodLists
    /\ week_starts = WeekStarts(Len(running_periods))
    /\ tl = TrainingLoad
    /\ load_data = <<>>
    /\ OverreachIdle /\ PeriodIdle /\ GroupIdle /\ TrendIdle
    /\ AggregateIdle /\ InsightIdle /\ ChartsIdle /\ ConcurrentIdle /\ PageIdle
    /\ StrydIdle

CallCalculateTrainingLoad ==
    /\ pc = "start"
    /\ tl' = calculate_training_load(running_periods)
    /\ pc' = "calculate_training_load"
    /\ UNCHANGED <<running_periods, week_starts, load_data>>
    /\ UNCHANGED <<overreach_vars, period_vars, group_vars, trend_vars,
                   aggregate_vars, insight_vars, charts_vars, concurrent_vars,
                   page_vars, stryd_vars>>

CallComputeRollingAcwr ==
    /\ pc = "start"
    /\ load_data' = compute_rolling_acwr(running_periods, week_starts)
    /\ pc' = "compute_rolling_acwr"
    /\ UNCHANGED <<running_periods, week_starts, tl>>
    /\ UNCHANGED <<overreach_vars, period_vars, group_vars, trend_vars,
                   aggregate_vars, insight_vars, charts_vars, concurrent_vars,
                   page_vars, stryd_vars>>

NextLoad == CallCalculateTrainingLoad \/ CallComputeRollingAcwr

SpecLoad == InitLoad /\ [][NextLoad]_vars

\* ---- overreaching ----
InitOverreach ==
    /\ pc = "start"
    /\ load \in LoadValues
    /\ health_weeks \in HealthWeekLists
    /\ warnings = <<>>
    /\ LoadIdle /\ PeriodIdle /\ GroupIdle /\ TrendIdle
    /\ AggregateIdle /\ InsightIdle /\ ChartsIdle /\ ConcurrentIdle /\ PageIdle
    /\ StrydIdle

CallDetectOverreaching ==
    /\ pc = "start"
    /\ warnings' = detect_overreaching(load, health_weeks)
    /\ pc' = "detect_overreaching"
    /\ UNCHANGED <<load, health_weeks>>
    /\ UNCHANGED <<load_vars, period_vars, group_vars, trend_vars,
                   aggregate_vars, insight_vars, charts_vars, concurrent_vars,
                   page_vars, stryd_vars>>

NextOverreach == CallDetectOverreaching

SpecOverreach == InitOverreach /\ [][NextOverreach]_vars

\* ---- period boundaries ----
InitPeriods ==
    /\ pc = "start"
    /\ today \in RefDates
    /\ period_type \in PeriodTypes
    /\ count \in 1..MaxCount
    /\ periods = <<>>
    /\ LoadIdle /\ OverreachIdle /\ GroupIdle /\ TrendIdle
    /\ AggregateIdle /\ InsightIdle /\ ChartsIdle /\ ConcurrentIdle /\ PageIdle
    /\ StrydIdle

CallGetPeriodBoundaries ==
    /\ pc = "start"
    /\ periods' = get_period_boundaries(today, period_type, count)
    /\ pc' = "get_period_boundaries"
    /\ UNCHANGED <<today, period_type, count>>
    /\ UNCHANGED <<load_vars, overreach_vars, group_vars, trend_vars,
                   aggregate_vars, insight_vars, charts_vars, concurrent_vars,
                   page_vars, stryd_vars>>

NextPeriods == CallGetPeriodBoundaries

SpecPeriods == InitPeriods /\ [][NextPeriods]_vars

\* ---- bucketing ----
InitGroup ==
    /\ pc = "start"
    /\ records \in RecordLists
    /\ group_periods \in GroupPeriodLists
    /\ buckets = <<>>
    /\ LoadIdle /\ OverreachIdle /\ PeriodIdle /\ TrendIdle
    /\ AggregateIdle /\ InsightIdle /\ ChartsIdle /\ ConcurrentIdle /\ PageIdle
    /\ StrydIdle

CallGroupByPeriod ==
    /\ pc = "start"
    /\ buckets' = group_by_period(records, group_periods)
    /\ pc' = "group_by_period"
    /\ UNCHANGED <<records, group_periods>>
    /\ UNCHANGED <<load_vars, overreach_vars, period_vars, trend_vars,
                   aggregate_vars, insight_vars, charts_vars, concurrent_vars,
                   page_vars, stryd_vars>>

NextGroup == CallGroupByPeriod

SpecGroup == InitGroup /\ [][NextGroup]_vars

\* ---- trends ----
InitTrend ==
    /\ pc = "start"
    /\ current_value \in TrendValues
    /\ previous_avg \in TrendValues
    /\ direction = ""
    /\ LoadIdle /\ OverreachIdle /\ PeriodIdle /\ GroupIdle
    /\ AggregateIdle /\ InsightIdle /\ ChartsIdle /\ ConcurrentIdle /\ PageIdle
    /\ StrydIdle

CallTrendDirection ==
    /\ pc = "start"
    /\ direction' = trend_direction(current_value, previous_avg)
    /\ pc' = "trend_direction"
    /\ UNCHANGED <<current_value, previous_avg>>
    /\ UNCHANGED <<load_vars, overreach_vars, period_vars, group_vars,
                   aggregate_vars, insight_vars, charts_vars, concurrent_vars,
                   page_vars, stryd_vars>>

NextTrend == CallTrendDirection

SpecTrend == InitTrend /\ [][NextTrend]_vars

\* ---- aggregates: one bucket of training records or of health records ----
InitAggregate ==
    /\ pc = "start"
    /\ \/ training_records \in TrainingBuckets /\ health_records = <<>>
       \/ training_records = <<>> /\ health_records \in HealthBuckets
    /\ training_week = TrainingWeek
    /\ running_period = RunningPeriodDefaults
    /\ health_week = HealthWeek
    /\ LoadIdle /\ OverreachIdle /\ PeriodIdle /\ GroupIdle /\ TrendIdle
    /\ InsightIdle /\ ChartsIdle /\ ConcurrentIdle /\ PageIdle /\ StrydIdle

CallCalculateTrainingWeek ==
    /\ pc = "start"
    /\ training_week' = calculate_training_week(training_records, <<"W", 1>>)
    /\ pc' = "calculate_training_week"
    /\ UNCHANGED <<training_records, running_period, health_vars>>
    /\ UNCHANGED <<load_vars, overreach_vars, period_vars, group_vars,
                   trend_vars, insight_vars, charts_vars, concurrent_vars,
                   page_vars, stryd_vars>>

CallCalculateRunningPeriod ==
    /\ pc = "start"
    /\ running_period' = calculate_running_period(training_records, <<"W", 1>>)
    /\ pc' = "calculate_running_period"
    /\ UNCHANGED <<training_records, training_week, health_vars>>
    /\ UNCHANGED <<load_vars, overreach_vars, period_vars, group_vars,
                   trend_vars, insight_vars, charts_vars, concurrent_vars,
                   page_vars, stryd_vars>>

CallCalculateHealthWeek ==
    /\ pc = "start"
    /\ health_week' = calculate_health_week(health_records, <<"W", 1>>)
    /\ pc' = "calculate_health_week"
    /\ UNCHANGED <<health_records, training_vars>>
    /\ UNCHANGED <<load_vars, overreach_vars, period_vars, group_vars,
                   trend_vars, insight_vars, charts_vars, concurrent_vars,
                   page_vars, stryd_vars>>

NextAggregate ==
    \/ CallCalculateTrainingWeek
    \/ CallCalculateRunningPeriod
    \/ CallCalculateHealthWeek

SpecAggregate == InitAggregate /\ [][NextAggregate]_vars

\* ---- insights: _compute_dashboard_data, from the weekly buckets on ----
InitInsight ==
    /\ pc = "start"
    /\ \/ training_by_week \in TrainingByWeek /\ health_by_week = <<>>
       \/ training_by_week = <<>> /\ health_by_week \in HealthByWeek
    /\ training_weeks = <<>>
    /\ running_power_insight = <<>> /\ running_biomechanics_insight = <<>>
    /\ health_sleep_insight = <<>> /\ health_hr_insight = <<>>
    /\ health_recovery_insight = <<>> /\ training_takeaway = <<>>
    /\ LoadIdle /\ OverreachIdle /\ PeriodIdle /\ GroupIdle /\ TrendIdle
    /\ AggregateIdle /\ ChartsIdle /\ ConcurrentIdle /\ PageIdle /\ StrydIdle

insight_frame ==
    <<week_starts, tl, load_data, load, warnings, period_vars, group_vars,
      trend_vars, aggregate_vars, charts_vars, concurrent_vars, page_vars,
      stryd_vars>>

CalculateWeeklyMetrics ==
    /\ pc = "start"
    /\ training_weeks' =
           [i \in 1..Len(training_by_week) |->
               calculate_training_week(training_by_week[i], WeekLabel(i))]
    /\ health_weeks' =
           [i \in 1..Len(health_by_week) |->
               calculate_health_week(health_by_week[i], WeekLabel(i))]
    /\ running_periods' =
           [i \in 1..Len(training_by_week) |->
               calculate_running_period(training_by_week[i], WeekLabel(i))]
    /\ pc' = "weekly_metrics"
    /\ UNCHANGED <<training_by_week, health_by_week, running_power_insight,
                   running_biomechanics_insight, health_sleep_insight,
                   health_hr_insight, health_recovery_insight,
                   training_takeaway>>
    /\ UNCHANGED insight_frame

CallGenerateRunningPowerInsight ==
    /\ pc = "weekly_metrics"
    /\ running_power_insight' = generate_running_power_insight(running_periods)
    /\ pc' = "generate_running_power_insight"
    /\ UNCHANGED <<training_by_week, health_by_week, training_weeks,
                   health_weeks, running_periods, running_biomechanics_insight,
                   health_sleep_insight, health_hr_insight,
                   health_recovery_insight,
                   training_takeaway>>
    /\ UNCHANGED insight_frame

CallGenerateRunningBiomechanicsInsight ==
    /\ pc = "generate_running_power_insight"
    /\ running_biomechanics_insight' =
           generate_running_biomechanics_insight(running_periods)
    /\ pc' = "generate_running_biomechanics_insight"
    /\ UNCHANGED <<training_by_week, health_by_week, training_weeks,
                   health_weeks, running_periods, running_power_insight,
                   health_sleep_insight, health_hr_insight,
                   health_recovery_insight,
                   training_takeaway>>
    /\ UNCHANGED insight_frame

CallGenerateTrainingTakeaway ==
    /\ pc = "generate_running_biomechanics_insight"
    /\ training_takeaway' = generate_training_takeaway(training_weeks)
    /\ pc' = "generate_training_takeaway"
    /\ UNCHANGED <<training_by_week, health_by_week, training_weeks,
                   health_weeks, running_periods, running_power_insight,
                   running_biomechanics_insight, health_sleep_insight,
                   health_hr_insight, health_recovery_insight>>
    /\ UNCHANGED insight_frame

CallGenerateSleepInsight ==
    /\ pc = "generate_training_takeaway"
    /\ health_sleep_insight' = generate_sleep_insight(health_weeks)
    /\ pc' = "generate_sleep_insight"
    /\ UNCHANGED <<training_by_week, health_by_week, training_weeks,
                   health_weeks, running_periods, running_power_insight,
                   running_biomechanics_insight, health_hr_insight,
                   health_recovery_insight,
                   training_takeaway>>
    /\ UNCHANGED insight_frame

CallGenerateHrInsight ==
    /\ pc = "generate_sleep_insight"
    /\ health_hr_insight' = generate_hr_insight(health_weeks)
    /\ pc' = "generate_hr_insight"
    /\ UNCHANGED <<training_by_week, health_by_week, training_weeks,
                   health_weeks, running_periods, running_power_insight,
                   running_biomechanics_insight, health_sleep_insight,
                   health_recovery_insight,
                   training_takeaway>>
    /\ UNCHANGED insight_frame

CallGenerateRecoveryHealthInsight ==
    /\ pc = "generate_hr_insight"
    /\ health_recovery_insight' = generate_recovery_health_insight(health_weeks)
    /\ pc' = "generate_recovery_health_insight"
    /\ UNCHANGED <<training_by_week, health_by_week, training_weeks,
                   health_weeks, running_periods, running_power_insight,
                   running_biomechanics_insight, health_sleep_insight,
                   health_hr_insight,
                   training_takeaway>>
    /\ UNCHANGED insight_frame

NextInsight ==
    \/ CalculateWeeklyMetrics
    \/ CallGenerateRunningPowerInsight
    \/ CallGenerateRunningBiomechanicsInsight
    \/ CallGenerateTrainingTakeaway
    \/ CallGenerateSleepInsight
    \/ CallGenerateHrInsight
    \/ CallGenerateRecoveryHealthInsight

SpecInsight == InitInsight /\ [][NextInsight]_vars

\* ---- chart data ----
InitCharts ==
    /\ pc = "start"
    /\ training_records \in BoundedSeq(ChartTrainingRecords, MaxChartTraining)
    /\ health_records \in BoundedSeq(ChartHealthRecords, MaxChartHealth)
    /\ today \in ChartTodays
    /\ charts_data = EmptyChartsData
    /\ training_week = TrainingWeek /\ running_period = RunningPeriodDefaults
    /\ health_week = HealthWeek
    /\ period_type = "week" /\ count = 0 /\ periods = <<>>
    /\ LoadIdle /\ OverreachIdle /\ GroupIdle /\ TrendIdle /\ InsightIdle
    /\ ConcurrentIdle /\ PageIdle /\ StrydIdle

CallBuildChartsData ==
    /\ pc = "start"
    /\ charts_data' = build_charts_data(training_records, health_records, today)
    /\ pc' = "build_charts_data"
    /\ UNCHANGED <<load_vars, overreach_vars, period_vars, group_vars,
                   trend_vars, aggregate_vars, insight_vars, concurrent_vars,
                   page_vars, stryd_vars>>

NextCharts == CallBuildChartsData

SpecCharts == InitCharts /\ [][NextCharts]_vars

\* ---- invocations in progress at the same time, on the same arguments ----
ConcurrentRecords ==
    <<[name |-> 1, date |-> PyStr(isoformat(date(2026, 2, 1)))],
      [name |-> 2, date |-> PyDate(date(2026, 1, 31))]>>

ConcurrentPeriods ==
    <<period(date(2026, 1, 31), date(2026, 2, 1), <<"P", 1>>),
      period(date(2026, 2, 2), date(2026, 2, 2), <<"P", 2>>)>>

ConcurrentRunningPeriods ==
    {<<RunningPeriod(<<"W", 1>>, 150), RunningPeriod(<<"W", 2>>, 100)>>,
     <<RunningPeriod(<<"W", 1>>, 130)>>}

ConcurrentHealthWeeks ==
    <<[HealthWeek EXCEPT !.avg_body_battery = 630, !.avg_sleep_hours = 63,
                         !.avg_resting_hr = 550],
      [HealthWeek EXCEPT !.avg_body_battery = 700, !.avg_sleep_hours = 70,
                         !.avg_resting_hr = 500]>>

InitConcurrent ==
    /\ pc = "start"
    /\ records = ConcurrentRecords
    /\ group_periods = ConcurrentPeriods
    /\ training_records = <<RunFull, GymStrength>>
    /\ health_records = <<HealthGood, HealthSick>>
    /\ running_periods \in ConcurrentRunningPeriods
    /\ week_starts = WeekStarts(Len(running_periods))
    /\ load = [TrainingLoad EXCEPT !.acwr = 150,
                                   !.load_status = load_status_of(150)]
    /\ health_weeks = ConcurrentHealthWeeks
    /\ current_value = 1055 /\ previous_avg = 1000
    /\ ConcurrentIdle /\ PageIdle /\ StrydIdle
    /\ tl = TrainingLoad /\ load_data = <<>> /\ warnings = <<>>
    /\ buckets = <<>> /\ direction = ""
    /\ training_week = TrainingWeek /\ running_period = RunningPeriodDefaults
    /\ health_week = HealthWeek
    /\ PeriodIdle /\ InsightIdle /\ ChartsIdle /\ PageIdle /\ StrydIdle

concurrent_args ==
    <<running_periods, week_starts, load, health_weeks, records,
      group_periods, current_value, previous_avg, training_records,
      health_records>>

concurrent_frame ==
    <<pc, concurrent_args, tl, load_data, warnings, buckets, direction,
      training_week, running_period, health_week, period_vars, insight_vars,
      charts_vars, page_vars, stryd_vars>>

\* the step of invocation p leaves it in state c; every call in progress
\* at that moment has run alongside another one
Stepped(p, c) ==
    [q \in Invocations |->
        IF q = p
        THEN [c EXCEPT !.overlapped =
                  @ \/ \E r \in Invocations \ {p} : invocation[r].fn # ""]
        ELSE IF invocation[q].fn # ""
             THEN [invocation[q] EXCEPT !.overlapped = TRUE]
             ELSE invocation[q]]

Iterated(f) ==
    iterated(f, records, training_records, health_records, running_periods,
             health_weeks)

\* the call is entered (each invocation is one call): its locals are
\* allocated
Invoke(p, f) ==
    /\ invocation[p].fn = "" /\ returned[p].fn = ""
    /\ invocation' = Stepped(p, [fn |-> f, k |-> 0, overlapped |-> FALSE])
    /\ frames' = [frames EXCEPT ![frame_of(p)] = new_frame(f, group_periods)]
    /\ UNCHANGED returned
    /\ UNCHANGED concurrent_frame

\* one iteration of the call's loop
ReadNext(p) ==
    LET c == invocation[p]
    IN  /\ c.fn # ""
        /\ c.k < Len(Iterated(c.fn))
        /\ invocation' = Stepped(p, [c EXCEPT !.k = @ + 1])
        /\ frames' = [frames EXCEPT ![frame_of(p)] =
                         read(c.fn, @, Iterated(c.fn)[c.k + 1], group_periods)]
        /\ UNCHANGED returned
        /\ UNCHANGED concurrent_frame

\* the loop is over: the call returns
Return(p) ==
    LET c == invocation[p]
    IN  /\ c.fn # ""
        /\ c.k = Len(Iterated(c.fn))
        /\ returned' =
             [returned EXCEPT ![p] =
                 [fn |-> c.fn,
                  value |-> return_value(c.fn, frames[frame_of(p)],
                                         week_starts, load, current_value,
                                         previous_avg),
                  overlapped |-> Stepped(p, c)[p].overlapped]]
        /\ invocation' = Stepped(p, NoCall)
        /\ UNCHANGED frames
        /\ UNCHANGED concurrent_frame

NextConcurrent ==
    \/ \E p \in Invocations, f \in Functions : Invoke(p, f)
    \/ \E p \in Invocations : ReadNext(p)
    \/ \E p \in Invocations : Return(p)

SpecConcurrent == InitConcurrent /\ [][NextConcurrent]_vars

\* ---- pages: the dashboard page as earlier runs or the user left it ----
MonthlyReport == <<"Monthly", "Report">>
QuarterlyReport == <<"Quarterly", "Report">>
YearlyReport == <<"Yearly", "Report">>

\* subpage_configs of main: the titles, in order
SubpageTitles == <<MonthlyReport, QuarterlyReport, YearlyReport>>

\* report pages, a second page of the same title, a page whose title only
\* starts like a report's, a heading that carries a report's title, a
\* paragraph
ExistingBlocks ==
    {ChildPage(<<"m", "-", "1">>, MonthlyReport),
     ChildPage(<<"m", "-", "2">>, MonthlyReport),
     ChildPage(<<"x", "-", "1">>, MonthlyReport \o <<"Extra">>),
     ChildPage(<<"q", "-", "1">>, QuarterlyReport),
     Block(<<"t", "-", "1">>, "heading_1", MonthlyReport, <<>>),
     Block(<<"h", "-", "1">>, "paragraph", <<>>, <<>>)}

\* the workspace whose dashboard page holds these blocks; every page among
\* them holds one paragraph
Workspace(children) ==
    [children |->
        [p \in {DashboardPageId} \cup
               {strip_dashes(children[i].id) :
                   i \in {j \in 1..Len(children) :
                             children[j].type = "child_page"}} |->
            IF p = DashboardPageId THEN children
            ELSE <<Block(<<"c", "-">> \o p, "paragraph", <<>>, <<>>)>>],
     created |-> <<>>, deleted |-> {}, serial |-> 0]

Workspaces ==
    {Workspace(children) :
        children \in {c \in BoundedSeq(ExistingBlocks, MaxChildren) :
                         \A i, j \in 1..Len(c) : i # j => c[i] # c[j]}}

page_frame ==
    <<load_vars, overreach_vars, period_vars, group_vars, trend_vars,
      aggregate_vars, insight_vars, charts_vars, concurrent_vars, stryd_vars>>

\* ---- find_or_create_subpage, called again and again on the dashboard ----
InitSubpage ==
    /\ pc = "start"
    /\ notion \in Workspaces
    /\ title = <<>> /\ page_id = <<>>
    /\ subpage_ids = <<>> /\ subpage_calls = 0
    /\ LoadIdle /\ OverreachIdle /\ PeriodIdle /\ GroupIdle /\ TrendIdle
    /\ AggregateIdle /\ InsightIdle /\ ChartsIdle /\ ConcurrentIdle
    /\ StrydIdle

CallFindOrCreateSubpage ==
    \E wanted \in {MonthlyReport, QuarterlyReport} :
        LET r == find_or_create_subpage(notion, DashboardPageId, wanted)
        IN  /\ subpage_calls < MaxCalls
            /\ title' = wanted
            /\ notion' = r.notion
            /\ page_id' = r.page_id
            /\ subpage_calls' = subpage_calls + 1
            /\ pc' = "find_or_create_subpage"
            /\ UNCHANGED subpage_ids
            /\ UNCHANGED page_frame

NextSubpage == CallFindOrCreateSubpage

SpecSubpage == InitSubpage /\ [][NextSubpage]_vars

\* ---- main, from the subpage loop on ----
InitMain == InitSubpage

\* --dry-run: main returns before it creates the client
MainDryRun ==
    /\ pc = "start"
    /\ pc' = "dry_run"
    /\ UNCHANGED page_vars
    /\ UNCHANGED page_frame

\* page_id = find_or_create_subpage(...); data.subpage_ids[title] = page_id
MainFindOrCreateSubpage ==
    LET wanted == SubpageTitles[subpage_calls + 1]
        r == find_or_create_subpage(notion, DashboardPageId, wanted)
    IN  /\ pc \in {"start", "write_subpage"}
        /\ subpage_calls < Len(SubpageTitles)
        /\ title' = wanted
        /\ notion' = r.notion
        /\ page_id' = r.page_id
        /\ subpage_ids' = dict_set(subpage_ids, wanted, r.page_id)
        /\ subpage_calls' = subpage_calls + 1
        /\ pc' = "find_or_create_subpage"
        /\ UNCHANGED page_frame

\* clear_page_blocks(client, page_id)
MainClearSubpage ==
    /\ pc = "find_or_create_subpage"
    /\ notion' = clear_page_blocks(notion, page_id)
    /\ pc' = "clear_subpage"
    /\ UNCHANGED <<title, page_id, subpage_ids, subpage_calls>>
    /\ UNCHANGED page_frame

\* write_dashboard(client, page_id, subpage_blocks)
MainWriteSubpage ==
    /\ pc = "clear_subpage"
    /\ notion' = write_dashboard(notion, page_id,
                                 build_subpage_dashboard(title))
    /\ pc' = "write_subpage"
    /\ UNCHANGED <<title, page_id, subpage_ids, subpage_calls>>
    /\ UNCHANGED page_frame

\* clear_page_blocks(client, config.dashboard_page_id)
MainClearDashboard ==
    /\ pc = "write_subpage"
    /\ subpage_calls = Len(SubpageTitles)
    /\ notion' = clear_page_blocks(notion, DashboardPageId)
    /\ pc' = "clear_dashboard"
    /\ UNCHANGED <<title, page_id, subpage_ids, subpage_calls>>
    /\ UNCHANGED page_frame

\* write_dashboard(client, config.dashboard_page_id, blocks)
MainWriteDashboard ==
    /\ pc = "clear_dashboard"
    /\ notion' = write_dashboard(notion, DashboardPageId,
                                 build_full_dashboard(subpage_ids))
    /\ pc' = "main"
    /\ UNCHANGED <<title, page_id, subpage_ids, subpage_calls>>
    /\ UNCHANGED page_frame

NextMain ==
    \/ MainDryRun
    \/ MainFindOrCreateSubpage
    \/ MainClearSubpage
    \/ MainWriteSubpage
    \/ MainClearDashboard
    \/ MainWriteDashboard

SpecMain == InitMain /\ [][NextMain]_vars

\* ---- training load, then warnings: _compute_dashboard_data ----
\* the most recent periods and the health weeks of the current and one
\* prior week
InitWarnings ==
    /\ pc = "start"
    /\ running_periods \in
           {rps \in RunningPeriodLists : Len(rps) <= MaxLoadPeriods}
    /\ week_starts = <<>>
    /\ health_weeks \in {hws \in HealthWeekLists : Len(hws) <= MaxLoadPeriods}
    /\ tl = TrainingLoad /\ load_data = <<>>
    /\ load = TrainingLoad /\ warnings = <<>>
    /\ PeriodIdle /\ GroupIdle /\ TrendIdle /\ AggregateIdle /\ InsightIdle
    /\ ChartsIdle /\ ConcurrentIdle /\ PageIdle /\ StrydIdle

warnings_frame ==
    <<running_periods, week_starts, load_data, health_weeks, period_vars,
      group_vars, trend_vars, aggregate_vars, insight_vars, charts_vars,
      concurrent_vars, page_vars, stryd_vars>>

\* training_load = calculate_training_load(running_periods)
ComputeTrainingLoad ==
    /\ pc = "start"
    /\ tl' = calculate_training_load(running_periods)
    /\ pc' = "training_load"
    /\ UNCHANGED <<load, warnings>>
    /\ UNCHANGED warnings_frame

\* overreaching_warnings = detect_overreaching(training_load, health_weeks)
ComputeOverreachingWarnings ==
    /\ pc = "training_load"
    /\ load' = tl
    /\ warnings' = detect_overreaching(tl, health_weeks)
    /\ pc' = "overreaching_warnings"
    /\ UNCHANGED tl
    /\ UNCHANGED warnings_frame

NextWarnings == ComputeTrainingLoad \/ ComputeOverreachingWarnings

SpecWarnings == InitWarnings /\ [][NextWarnings]_vars

\* ---- Stryd sync: runs of sync_activities over the same activities ----
\* two runs of one day and one of the next, one of them without power
ActivityValues ==
    {[timestamp |-> 20000 * SecondsPerDay + 3600, average_power |-> PyFloat(2500)],
     [timestamp |-> 20000 * SecondsPerDay + 7200, average_power |-> PyFloat(0)],
     [timestamp |-> 20001 * SecondsPerDay + 3600, average_power |-> PyFloat(2405)]}

\* pages the Garmin and Hevy syncs wrote for these days
ExistingPages ==
    {[date |-> 20000, source |-> "Garmin", training_type |-> "Running",
      external_id |-> <<"garmin-", 1>>, power |-> PyNone],
     [date |-> 20000, source |-> "Garmin", training_type |-> "Cycling",
      external_id |-> <<"garmin-", 2>>, power |-> PyNone],
     [date |-> 20001, source |-> "Hevy", training_type |-> "Gym-Strength",
      external_id |-> <<"hevy-", 1>>, power |-> PyNone]}

Databases ==
    {[i \in 1..Len(pgs) |->
         [id |-> i, date |-> pgs[i].date, source |-> pgs[i].source,
          training_type |-> pgs[i].training_type,
          external_id |-> pgs[i].external_id, power |-> pgs[i].power]] :
        pgs \in BoundedSeq(ExistingPages, MaxPages)}

InitStryd ==
    /\ pc = "start"
    /\ activities \in BoundedSeq(ActivityValues, MaxActivities)
    /\ training_db \in Databases
    /\ sync_calls = <<>> /\ sync_counts = <<0, 0, 0>> /\ sync_runs = 0
    /\ LoadIdle /\ OverreachIdle /\ PeriodIdle /\ GroupIdle /\ TrendIdle
    /\ AggregateIdle /\ InsightIdle /\ ChartsIdle /\ ConcurrentIdle
    /\ PageIdle

\* one run of sync_activities
SyncActivities ==
    LET st == sync_activities(activities, sync_runs + 1, training_db,
                              sync_calls)
    IN  /\ sync_runs < MaxRuns
        /\ training_db' = st.db
        /\ sync_calls' = st.calls
        /\ sync_counts' = <<st.updated, st.created, st.skipped>>
        /\ sync_runs' = sync_runs + 1
        /\ pc' = "sync_activities"
        /\ UNCHANGED activities
        /\ UNCHANGED <<load_vars, overreach_vars, period_vars, group_vars,
                       trend_vars, aggregate_vars, insight_vars, charts_vars,
                       concurrent_vars, page_vars>>

NextStryd == SyncActivities

SpecStryd == InitStryd /\ [][NextStryd]_vars

----------------------------------------------------------------------------
(* Properties of the training-load analysis (SpecLoad) *)

LoadZones == {"detraining", "optimal", "caution", "danger"}

\* the zone z is the one the thresholds 0.8 / 1.3 / 1.5 assign to acwr a
ZoneHolds(z, a) ==
    \/ z = "detraining" /\ a < 80
    \/ z = "optimal" /\ 80 <= a /\ a <= 130
    \/ z = "caution" /\ 130 < a /\ a <= 150
    \/ z = "danger" /\ a > 150

ZoneMatches(ld) ==
    /\ ZoneHolds(ld.load_status, ld.acwr)
    /\ Cardinality({z \in LoadZones : ZoneHolds(z, ld.acwr)}) = 1

\* C1 as stated: for every list passed to calculate_training_load, the empty
\* list included, load_status is the zone the thresholds assign to acwr.
C1_EveryListHasZone ==
    pc = "calculate_training_load" => ZoneMatches(tl)

\* C1 (amended): for every non-empty list of running periods,
\* calculate_training_load returns the load_status that the thresholds assign
\* to the returned acwr (detraining < 0.8 <= optimal <= 1.3 < caution <= 1.5
\* < danger), exactly one zone applying; for the empty list it returns the
\* default TrainingLoad, acwr 0.0 with the empty load_status.
C1_ZoneMatchesAcwr ==
    pc = "calculate_training_load" =>
        IF running_periods = <<>>
        THEN tl.acwr = 0 /\ tl.load_status = ""
        ELSE ZoneMatches(tl)

\* the 1.3 boundary is reached and classified 'optimal'
C1_Witness ==
    /\ pc = "calculate_training_load"
    /\ tl.acwr = 130
    /\ tl.load_status = "optimal"

\* what the single-period claim promises of a load record
SinglePeriodNeutral(ld) ==
    /\ ld.chronic_load = ld.acute_load
    /\ ld.acwr = 100
    /\ ld.load_status = "optimal"

\* C2 as stated: every single-period input gives chronic_load = acute_load,
\* acwr = 1.0 and 'optimal', and so does the first rolling record.
C2_SinglePeriodAlwaysNeutral ==
    /\ (pc = "calculate_training_load" /\ Len(running_periods) = 1)
          => SinglePeriodNeutral(tl)
    /\ (pc = "compute_rolling_acwr" /\ Len(running_periods) >= 1)
          => SinglePeriodNeutral(load_data[1])

\* the amended single-period result for a period of total_rss rss
SinglePeriodResult(ld, rss) ==
    /\ ld.acute_load = rss
    /\ ld.chronic_load = rss
    /\ IF rss > 0
       THEN ld.acwr = 100 /\ ld.load_status = "optimal"
       ELSE ld.acwr = 0 /\ ld.load_status = "detraining"

\* C2 (amended): for a single-period input calculate_training_load sets
\* chronic_load = acute_load; acwr is 1.0 and load_status 'optimal' when the
\* period's total_rss is positive, and acwr is 0 and load_status 'detraining'
\* when its total_rss is 0; the same holds for the first record of
\* compute_rolling_acwr.
C2_SinglePeriod ==
    /\ (pc = "calculate_training_load" /\ Len(running_periods) = 1)
          => SinglePeriodResult(tl, running_periods[1].total_rss)
    /\ (pc = "compute_rolling_acwr" /\ Len(running_periods) >= 1)
          => SinglePeriodResult(load_data[1], running_periods[1].total_rss)

C2_Witness ==
    /\ pc = "calculate_training_load"
    /\ Len(running_periods) = 1
    /\ running_periods[1].total_rss > 0
    /\ tl.acwr = 100

\* the first min(n, len) entries of a list
Prefix(s, n) == SubSeq(s, 1, Min(n, Len(s)))

\* mean to one decimal of total_rss over the Python indices 1..min(3, len-1)
MeanOfPrior(rps) ==
    LET n == Min(3, Len(rps) - 1)
    IN  Round(SumSeq([k \in 1..n |-> rps[k + 1].total_rss]), n)

\* the list first followed by periods of the loads rest
WithRest(first, rest) ==
    first \o [k \in 1..Len(rest) |->
                 RunningPeriod(<<"W", Len(first) + k>>, rest[k])]

\* C3: calculate_training_load reads only the first four entries: acute_load
\* is the total_rss of index 0, chronic_load the mean to one decimal of
\* total_rss over indices 1..min(3, len-1), and two inputs that agree on
\* their first four entries give the same result in every field.
C3_OnlyFirstFour ==
    (pc = "calculate_training_load" /\ running_periods # <<>>) =>
        /\ tl.acute_load = running_periods[1].total_rss
        /\ Len(running_periods) >= 2 =>
              tl.chronic_load = MeanOfPrior(running_periods)
        /\ Len(running_periods) >= 4 =>
              \A rest \in BoundedSeq(RssValues, MaxPeriods - 4) :
                  calculate_training_load(
                      WithRest(Prefix(running_periods, 4), rest)) = tl

\* a fifth period with a load unlike the three before it is ignored
C3_Witness ==
    /\ pc = "calculate_training_load"
    /\ Len(running_periods) >= 5
    /\ running_periods[5].total_rss = 150
    /\ \A k \in 2..4 : running_periods[k].total_rss = 80
    /\ tl.chronic_load = 80

\* C4: for a non-empty input acwr is acute_load / chronic_load to two
\* decimals when chronic_load > 0, and 0 with load_status 'detraining' when
\* chronic_load is 0, whatever the acute load; the division is never made
\* with a zero divisor.
C4_AcwrGuarded ==
    (pc = "calculate_training_load" /\ running_periods # <<>>) =>
        /\ tl.chronic_load > 0 =>
              /\ 200 * tl.acute_load <= (2 * tl.acwr + 1) * tl.chronic_load
              /\ 200 * tl.acute_load >= (2 * tl.acwr - 1) * tl.chronic_load
        /\ tl.chronic_load = 0 =>
              tl.acwr = 0 /\ tl.load_status = "detraining"

\* a positive acute load over a zero chronic load
C4_Witness ==
    /\ pc = "calculate_training_load"
    /\ tl.acute_load > 0
    /\ tl.chronic_load = 0
    /\ tl.acwr = 0

\* the window [p_i, p_(i-1), p_(i-2), p_(i-3)] of period i (1-based), cut
\* off at the start of the sequence
TrailingWindow(rps, i) == [k \in 1..Min(4, i) |-> rps[i - k + 1]]

\* rps with entry j replaced by a period of load v
WithLoad(rps, j, v) == [rps EXCEPT ![j].total_rss = v]

\* C5: compute_rolling_acwr returns one record per period in the input
\* order; record i carries the acute_load, chronic_load, acwr and load_status
\* that calculate_training_load gives for the trailing window of period i,
\* and neither a later period, nor one more than 3 before i, nor the length
\* of the rest of the sequence changes record i.
C5_RollingWindow ==
    pc = "compute_rolling_acwr" =>
        /\ Len(load_data) = Len(running_periods)
        /\ \A i \in 1..Len(running_periods) :
              LET ld == calculate_training_load(TrailingWindow(running_periods, i))
                  rec == load_data[i]
              IN  /\ rec.label = running_periods[i].label
                  /\ rec.week_start = isoformat(week_starts[i])
                  /\ rec.weekly_rss = running_periods[i].total_rss
                  /\ rec.acute_load = ld.acute_load
                  /\ rec.chronic_load = ld.chronic_load
                  /\ rec.acwr = ld.acwr
                  /\ rec.load_status = ld.load_status
                  /\ rec.acute_load = running_periods[i].total_rss
                  /\ i >= 2 => rec.chronic_load =
                        MeanOfPrior(TrailingWindow(running_periods, i))
                  /\ compute_rolling_acwr(Prefix(running_periods, i),
                                          Prefix(week_starts, i))[i] = rec
                  /\ \A j \in 1..Len(running_periods), v \in RssValues :
                        (j > i \/ j < i - 3) =>
                            compute_rolling_acwr(WithLoad(running_periods, j, v),
                                                 week_starts)[i] = rec

\* the fifth record leaves out the first period, whose load differs
C5_Witness ==
    /\ pc = "compute_rolling_acwr"
    /\ Len(load_data) >= 5
    /\ running_periods[1].total_rss = 150
    /\ \A k \in 2..4 : running_periods[k].total_rss = 80
    /\ load_data[5].chronic_load = 80
    /\ load_data[4].chronic_load # 80

\* the snapshot main takes of the same periods, most recent first
Snapshot == calculate_training_load(Reversed(running_periods))

\* C28: for an oldest-first sequence of running periods the last record of
\* compute_rolling_acwr carries the acute_load, chronic_load, acwr and
\* load_status that calculate_training_load gives for the whole sequence
\* reversed.
C28_SeriesEndsAtSnapshot ==
    (pc = "compute_rolling_acwr" /\ running_periods # <<>>)
        => LET last == load_data[Len(load_data)]
           IN  /\ Len(load_data) = Len(running_periods)
               /\ last.acute_load = Snapshot.acute_load
               /\ last.chronic_load = Snapshot.chronic_load
               /\ last.acwr = Snapshot.acwr
               /\ last.load_status = Snapshot.load_status

\* five periods, the oldest one heavier than the four the window holds:
\* both sides leave it out and give 10.0 / 10.0
C28_Witness ==
    /\ pc = "compute_rolling_acwr"
    /\ Len(running_periods) = 5
    /\ running_periods[1].total_rss = 150
    /\ \A k \in 2..5 : running_periods[k].total_rss = 100
    /\ load_data[5].chronic_load = 100 /\ load_data[5].acwr = 100
    /\ load_data[5].load_status = "optimal"

----------------------------------------------------------------------------
(* Properties of the overreaching detector (SpecOverreach) *)

\* C6: detect_overreaching returns an empty list whenever load.acwr < 1.3 or
\* fewer than 2 health periods are given, whatever the health values are.
C6_NoWarningBelowThreshold ==
    (pc = "detect_overreaching"
       /\ (load.acwr < 130 \/ Len(health_weeks) < 2))
        => warnings = <<>>

\* acwr just below 1.3 while body battery, sleep and resting HR all moved
\* past their thresholds
C6_Witness ==
    /\ pc = "detect_overreaching"
    /\ load.acwr = 129
    /\ Len(health_weeks) >= 2
    /\ health_weeks[1].avg_body_battery = 0
    /\ health_weeks[1].avg_sleep_hours = 0
    /\ health_weeks[1].avg_resting_hr = 600
    /\ \A k \in 2..Len(health_weeks) :
          /\ health_weeks[k].avg_body_battery = 700
          /\ health_weeks[k].avg_sleep_hours = 70
          /\ health_weeks[k].avg_resting_hr = 500
    /\ warnings = <<>>

\* the warning that starts with the text head is in the list ws
HasWarning(ws, head) == \E i \in 1..Len(ws) : ws[i][1] = head

\* mean to one decimal of a field over the prior health periods
PriorMean(hws, field) ==
    LET n == Len(hws) - 1
    IN  Round(SumSeq([k \in 1..n |-> hws[k + 1][field]]), n)

BatteryDue(hws) ==
    /\ PriorMean(hws, "avg_body_battery") # 0
    /\ 10 * hws[1].avg_body_battery < 9 * PriorMean(hws, "avg_body_battery")

SleepDue(hws) ==
    /\ PriorMean(hws, "avg_sleep_hours") # 0
    /\ 10 * hws[1].avg_sleep_hours < 9 * PriorMean(hws, "avg_sleep_hours")

HrDue(hws) ==
    /\ PriorMean(hws, "avg_resting_hr") # 0
    /\ 10 * hws[1].avg_resting_hr > 11 * PriorMean(hws, "avg_resting_hr")

\* C7: with acwr >= 1.3 and at least 2 health periods each of the three
\* warnings is emitted if and only if its own prior mean is non-zero and its
\* own comparison holds, independently of the other two, and nothing else is
\* returned.
C7_WarningsIndependent ==
    (pc = "detect_overreaching" /\ load.acwr >= 130 /\ Len(health_weeks) >= 2)
        =>
        /\ HasWarning(warnings, "Body battery declining (")
              <=> BatteryDue(health_weeks)
        /\ HasWarning(warnings, "Sleep declining (") <=> SleepDue(health_weeks)
        /\ HasWarning(warnings, "Resting HR elevated (") <=> HrDue(health_weeks)
        /\ Len(warnings) = Cardinality({c \in {"b", "s", "h"} :
              \/ c = "b" /\ BatteryDue(health_weeks)
              \/ c = "s" /\ SleepDue(health_weeks)
              \/ c = "h" /\ HrDue(health_weeks)})

\* sleep and resting HR warn together while body battery, with a zero prior
\* mean, does not
C7_Witness ==
    /\ pc = "detect_overreaching"
    /\ load.acwr = 130
    /\ Len(health_weeks) >= 3
    /\ PriorMean(health_weeks, "avg_body_battery") = 0
    /\ Len(warnings) = 2
    /\ HasWarning(warnings, "Sleep declining (")
    /\ HasWarning(warnings, "Resting HR elevated (")

\* every subset of the three warnings is a possible result: the state has
\* the subset sel, a set of the letters b, s and h
WarningSubset(sel) ==
    /\ pc = "detect_overreaching"
    /\ HasWarning(warnings, "Body battery declining (") <=> "b" \in sel
    /\ HasWarning(warnings, "Sleep declining (") <=> "s" \in sel
    /\ HasWarning(warnings, "Resting HR elevated (") <=> "h" \in sel

----------------------------------------------------------------------------
(* Properties of the period boundaries (SpecPeriods) *)

\* the set of days, as ordinals, of a period
DaysOf(p) == toordinal(p.start)..toordinal(p.end)

\* C8: for every reference date, period_type in {week, month, quarter, year}
\* and count N >= 1, get_period_boundaries returns exactly N periods, each
\* with start <= end, with start[i] > start[i+1], and no two of them share a
\* date.
C8_PeriodsOrderedDisjoint ==
    pc = "get_period_boundaries" =>
        /\ Len(periods) = count
        /\ \A i \in 1..Len(periods) :
              toordinal(periods[i].start) <= toordinal(periods[i].end)
        /\ \A i \in 1..(Len(periods) - 1) :
              toordinal(periods[i].start) > toordinal(periods[i + 1].start)
        /\ \A i, j \in 1..Len(periods) :
              i # j => DaysOf(periods[i]) \cap DaysOf(periods[j]) = {}

\* months walked back from January into the year before
C8_Witness ==
    /\ pc = "get_period_boundaries"
    /\ period_type = "month"
    /\ today.month = 1
    /\ count >= 3
    /\ Len(periods) = count
    /\ periods[2].start = date(today.year - 1, 12, 1)
    /\ periods[3].end = date(today.year - 1, 11, 30)

\* p is one whole calendar period of the type ptype
CalendarPeriod(p, ptype) ==
    LET next == fromordinal(toordinal(p.end) + 1)
    IN  \/ /\ ptype = "week"
           /\ weekday(p.start) = 0
           /\ toordinal(p.end) = toordinal(p.start) + 6
        \/ /\ ptype = "month"
           /\ p.start.day = 1
           /\ p.end.year = p.start.year /\ p.end.month = p.start.month
           /\ next.day = 1
        \/ /\ ptype = "quarter"
           /\ p.start.day = 1 /\ p.start.month \in {1, 4, 7, 10}
           /\ p.end.year = p.start.year /\ p.end.month = p.start.month + 2
           /\ next.day = 1
        \/ /\ ptype = "year"
           /\ p.start = date(p.start.year, 1, 1)
           /\ p.end = date(p.start.year, 12, 31)

\* C9: the periods returned by get_period_boundaries are whole calendar
\* periods of the requested type; the first contains the reference date and
\* the day after end[i+1] is start[i], also across a year boundary: the
\* month before January of Y is December of Y-1 and the quarter before Q1 of
\* Y is Q4 of Y-1.
C9_PeriodsContiguous ==
    pc = "get_period_boundaries" =>
        /\ \A i \in 1..Len(periods) : CalendarPeriod(periods[i], period_type)
        /\ toordinal(periods[1].start) <= toordinal(today)
        /\ toordinal(today) <= toordinal(periods[1].end)
        /\ \A i \in 1..(Len(periods) - 1) :
              /\ toordinal(periods[i + 1].end) + 1 = toordinal(periods[i].start)
              /\ (period_type = "month" /\ periods[i].start.month = 1) =>
                    /\ periods[i + 1].start = date(periods[i].start.year - 1, 12, 1)
                    /\ periods[i + 1].end = date(periods[i].start.year - 1, 12, 31)
              /\ (period_type = "quarter" /\ periods[i].start.month = 1) =>
                    /\ periods[i + 1].start = date(periods[i].start.year - 1, 10, 1)
                    /\ periods[i + 1].end = date(periods[i].start.year - 1, 12, 31)

\* quarters walked back from Q1 into Q4 of the year before
C9_Witness ==
    /\ pc = "get_period_boundaries"
    /\ period_type = "quarter"
    /\ today.month <= 3
    /\ count >= 2
    /\ periods[1].start = date(today.year, 1, 1)
    /\ periods[2].start = date(today.year - 1, 10, 1)
    /\ periods[2].end = date(today.year - 1, 12, 31)

----------------------------------------------------------------------------
(* Properties of the bucketing (SpecGroup) *)

\* the date a record's non-null date field stands for
DateLookup(raw) ==
    IF raw.type = "date" THEN raw.value
    ELSE CHOOSE d \in GroupDays : isoformat(d) = raw.value

\* the periods whose [start, end] contains the day d
Containing(ps, d) ==
    {k \in 1..Len(ps) :
        /\ toordinal(ps[k].start) <= toordinal(d)
        /\ toordinal(d) <= toordinal(ps[k].end)}

\* how many times the record rec occurs in the bucket b
Occurrences(b, rec) == Cardinality({k \in 1..Len(b) : b[k] = rec})

\* C10: group_by_period returns one bucket per period and puts each record
\* with a non-null date once into the bucket of the first period, in the
\* given order, whose [start, end] inclusively contains the date, also when
\* periods overlap, and into no other bucket; a record whose date no period
\* contains is in no bucket.
C10_FirstContainingPeriod ==
    pc = "group_by_period" =>
        /\ Len(buckets) = Len(group_periods)
        /\ \A i \in 1..Len(records) :
              records[i].date.type # "NoneType" =>
                  LET within == Containing(group_periods,
                                           DateLookup(records[i].date))
                  IN  \A k \in 1..Len(buckets) :
                          Occurrences(buckets[k], records[i]) =
                              IF k \in within /\ \A o \in within : k <= o
                              THEN 1 ELSE 0

\* a record dated inside two periods is in the first one only
C10_Witness ==
    /\ pc = "group_by_period"
    /\ Len(group_periods) >= 2
    /\ \E i \in 1..Len(records) :
          /\ records[i].date.type = "str"
          /\ Containing(group_periods, DateLookup(records[i].date)) = {1, 2}
          /\ Occurrences(buckets[1], records[i]) = 1
          /\ Occurrences(buckets[2], records[i]) = 0

----------------------------------------------------------------------------
(* Bucket sizes (SpecGroup) *)

\* the indices of the records whose date field is not None
Dated(recs) == {i \in 1..Len(recs) : recs[i].date.type # "NoneType"}

\* the number of records in all buckets together
RECURSIVE TotalBucketed(_)
TotalBucketed(bs) ==
    IF bs = <<>> THEN 0 ELSE Len(Head(bs)) + TotalBucketed(Tail(bs))

\* C11: the buckets returned by group_by_period hold together at most as
\* many records as have a non-null date, and exactly as many when every
\* such date lies inside some period; a record whose date is null is in no
\* bucket (and the call returns).
C11_BucketCount ==
    pc = "group_by_period" =>
        /\ TotalBucketed(buckets) <= Cardinality(Dated(records))
        /\ (\A i \in Dated(records) :
                Containing(group_periods, DateLookup(records[i].date)) # {})
              => TotalBucketed(buckets) = Cardinality(Dated(records))
        /\ \A i \in 1..Len(records) :
              records[i].date.type = "NoneType" =>
                  \A k \in 1..Len(buckets) :
                      Occurrences(buckets[k], records[i]) = 0

\* a null-dated record next to a record dated on the last day of a period:
\* one record is bucketed
C11_Witness ==
    /\ pc = "group_by_period"
    /\ Len(records) = 2
    /\ records[1].date.type = "NoneType"
    /\ records[2].date.type # "NoneType"
    /\ \E k \in 1..Len(group_periods) :
          /\ DateLookup(records[2].date) = group_periods[k].end
          /\ k \in Containing(group_periods, DateLookup(records[2].date))
    /\ TotalBucketed(buckets) = 1

----------------------------------------------------------------------------
(* Properties of the trend classification (SpecTrend) *)

\* |x| on the integers
Abs(x) == IF x < 0 THEN -x ELSE x

\* C12: trend_direction(current, prior_mean) with prior_mean = 0 is 'stable'
\* if current = 0 and 'up' otherwise; with prior_mean # 0 it is 'up' iff the
\* relative change (current - prior_mean) / |prior_mean| exceeds 5%, 'down'
\* iff it is below -5%, and 'stable' otherwise, so that a change of exactly
\* +5% or -5% is 'stable'.  (20 * change > |prior_mean| is change / |prior_mean|
\* > 1/20.)
C12_TrendThreshold ==
    pc = "trend_direction" =>
        LET change == current_value - previous_avg
        IN  IF previous_avg = 0
            THEN direction = (IF current_value = 0 THEN "stable" ELSE "up")
            ELSE /\ direction = "up" <=> 20 * change > Abs(previous_avg)
                 /\ direction = "down" <=> 20 * change < -Abs(previous_avg)
                 /\ direction \in {"up", "down", "stable"}
                 /\ 20 * Abs(change) = Abs(previous_avg) => direction = "stable"

\* a rise of exactly 5% over a non-zero mean has been classified
C12_Witness ==
    /\ pc = "trend_direction"
    /\ previous_avg # 0
    /\ 20 * (current_value - previous_avg) = Abs(previous_avg)
    /\ direction = "stable"

----------------------------------------------------------------------------
(* Properties of the aggregators (SpecAggregate) *)

\* the label the aggregates are computed under
AggregateLabel == <<"W", 1>>

\* Running and Gym records whose numeric fields are all None
NullSessions == {RunNull, GymNull}

\* the averages of a TrainingWeek and of a RunningPeriod
TrainingWeekAverages == {"feeling_avg", "gym_volume_per_session"}

RunningPeriodAverages ==
    {"avg_power_w", "avg_rss_per_run", "avg_critical_power_w",
     "avg_cadence_spm", "avg_stride_length_m", "avg_ground_contact_ms",
     "avg_vertical_oscillation_cm", "avg_leg_spring_stiffness", "avg_rpe",
     "avg_hr"}

\* C13: in every average of the aggregators (the avg_* fields, feeling_avg,
\* avg_rss_per_run, gym_volume_per_session) a record without the number is
\* left out and not counted as zero: adding to the bucket a Running or Gym
\* record whose numeric fields are all null changes none of the averages.
C13_NullRecordsLeftOut ==
    /\ pc = "calculate_training_week" =>
          \A extra \in NullSessions :
              LET more == calculate_training_week(
                              Append(training_records, extra), AggregateLabel)
              IN  \A f \in TrainingWeekAverages : more[f] = training_week[f]
    /\ pc = "calculate_running_period" =>
          \A extra \in NullSessions :
              LET more == calculate_running_period(
                              Append(training_records, extra), AggregateLabel)
              IN  \A f \in RunningPeriodAverages : more[f] = running_period[f]

\* how many records of recs have a value (not None) under key
CountPresent(recs, key) ==
    Cardinality({i \in 1..Len(recs) : recs[i][key].type # "NoneType"})

\* the Running records of a bucket
RunsIn(recs) == SelectSeq(recs, LAMBDA r : r.training_type = PyStr("Running"))

\* the record key averaged into each avg_* field
AveragedKey ==
    [avg_power_w |-> "power_w", avg_critical_power_w |-> "critical_power_w",
     avg_cadence_spm |-> "cadence_spm", avg_stride_length_m |-> "stride_length_m",
     avg_ground_contact_ms |-> "ground_contact_ms",
     avg_vertical_oscillation_cm |-> "vertical_oscillation_cm",
     avg_leg_spring_stiffness |-> "leg_spring_stiffness", avg_rpe |-> "rpe",
     avg_hr |-> "avg_hr", avg_sleep_hours |-> "sleep_hours",
     avg_resting_hr |-> "resting_hr", avg_steps |-> "steps",
     avg_body_battery |-> "body_battery"]

HealthWeekAverages ==
    {"avg_sleep_hours", "avg_resting_hr", "avg_steps", "avg_body_battery"}

\* C14: for every bucket, the empty one and those of records without any
\* optional value included, the three aggregators return an aggregate (of
\* natural numbers); every ratio whose denominator is zero is 0
\* (gym_volume_per_session, feeling_avg, feeling_pct, each avg_* field,
\* avg_rss_per_run, power_to_hr_ratio, avg_pace_min_per_km), and the empty
\* bucket yields the aggregate whose counts and numbers are all 0.
C14_ZeroDenominators ==
    /\ pc = "calculate_training_week" =>
          /\ \A f \in DOMAIN training_week \ {"label"} : training_week[f] \in Nat
          /\ training_week.gym_sessions = 0
                => training_week.gym_volume_per_session = 0
          /\ CountPresent(training_records, "feeling") = 0
                => training_week.feeling_avg = 0 /\ training_week.feeling_pct = 0
          /\ training_records = <<>>
                => training_week = [TrainingWeek EXCEPT !.label = AggregateLabel]
    /\ pc = "calculate_running_period" =>
          /\ \A f \in DOMAIN running_period \ {"label"} :
                running_period[f] \in Nat
          /\ \A f \in RunningPeriodAverages \ {"avg_rss_per_run"} :
                CountPresent(RunsIn(training_records), AveragedKey[f]) = 0
                    => running_period[f] = 0
          /\ running_period.run_count = 0 => running_period.avg_rss_per_run = 0
          /\ running_period.avg_hr = 0 => running_period.power_to_hr_ratio = 0
          /\ running_period.total_km = 0
                => running_period.avg_pace_min_per_km = 0
          /\ training_records = <<>>
                => running_period =
                       [RunningPeriodDefaults EXCEPT !.label = AggregateLabel]
    /\ pc = "calculate_health_week" =>
          /\ \A f \in HealthWeekAverages :
                /\ health_week[f] \in Nat
                /\ CountPresent(health_records, AveragedKey[f]) = 0
                      => health_week[f] = 0
          /\ health_records = <<>>
                => health_week = [HealthWeek EXCEPT !.label = AggregateLabel]

\* runs with minutes but no kilometre: the pace, a ratio over 0 km, is 0
C14_Witness ==
    /\ pc = "calculate_running_period"
    /\ running_period.run_count > 0
    /\ running_period.total_duration_min > 0
    /\ running_period.total_km = 0
    /\ running_period.avg_pace_min_per_km = 0
    /\ running_period.avg_hr = 0
    /\ running_period.avg_power_w > 0

\* the sum of the duration_min values of a bucket, in tenths of a minute, a
\* missing duration counting as 0
DurationSum(recs) ==
    SumSeq([i \in 1..Len(recs) |->
               IF recs[i].duration_min.type = "NoneType" THEN 0
               ELSE recs[i].duration_min.value])

\* C15: for every bucket of training records, whose duration_min values may
\* be non-integer, calculate_training_week.total_duration_min equals the
\* sum of duration_min over all records of the bucket, a missing duration
\* counting as 0.  (total_duration_min is in minutes, the sum in tenths.)
C15_TotalDurationIsSum ==
    pc = "calculate_training_week" =>
        10 * training_week.total_duration_min = DurationSum(training_records)

\* the records whose training_type is absent or in neither category set
OtherSessions ==
    {r \in TrainingRecords :
        \/ r.training_type.type = "NoneType"
        \/ r.training_type.value \notin (RUNNING_TYPES \cup GYM_TYPES)}

\* C16: in calculate_training_week a record whose training_type is absent
\* or in neither the Running set nor the Gym set adds 1 to sessions and its
\* duration to total_duration_min, and leaves running_km, running_count,
\* longest_run_km, gym_sessions, gym_volume and gym_volume_per_session
\* unchanged.  (total_duration_min is in minutes, a duration in tenths.)
C16_OtherTypeFrame ==
    pc = "calculate_training_week" =>
        \A extra \in OtherSessions :
            LET more == calculate_training_week(
                            Append(training_records, extra), AggregateLabel)
            IN  /\ more.sessions = training_week.sessions + 1
                /\ 10 * more.total_duration_min =
                       10 * training_week.total_duration_min
                           + DurationSum(<<extra>>)
                /\ \A f \in {"running_km", "running_count", "longest_run_km",
                             "gym_sessions", "gym_volume",
                             "gym_volume_per_session"} :
                       more[f] = training_week[f]

\* the records that are not Running records: of another type or untyped
NonRunning == {r \in TrainingRecords : r.training_type # PyStr("Running")}

\* C17: the result of calculate_running_period depends only on the Running
\* records of the bucket: it is the result for the bucket stripped of its
\* other records, appending or prepending a non-Running or untyped record
\* changes no field, and a bucket without a Running record yields the
\* all-zero aggregate with run_count = 0.
C17_OnlyRunningRecords ==
    pc = "calculate_running_period" =>
        /\ running_period =
               calculate_running_period(RunsIn(training_records), AggregateLabel)
        /\ \A extra \in NonRunning :
              /\ calculate_running_period(Append(training_records, extra),
                                          AggregateLabel) = running_period
              /\ calculate_running_period(<<extra>> \o training_records,
                                          AggregateLabel) = running_period
        /\ RunsIn(training_records) = <<>>
              => running_period =
                     [RunningPeriodDefaults EXCEPT !.label = AggregateLabel]

\* a bucket of one run and of sessions of other types that carry an RSS, a
\* distance or a heart rate; the period counts the run alone
C17_Witness ==
    /\ pc = "calculate_running_period"
    /\ Len(RunsIn(training_records)) = 1
    /\ \E i \in 1..Len(training_records) : training_records[i] = Mobility
    /\ \E i \in 1..Len(training_records) : training_records[i] = Untyped
    /\ running_period.run_count = 1
    /\ running_period.total_rss > 0

\* the positions of a bucket that hold a sleep_quality string
QualityAt(recs) ==
    {i \in 1..Len(recs) : recs[i].sleep_quality.type # "NoneType"}

\* how often the sleep_quality string q occurs in a bucket
QualityCount(recs, q) ==
    Cardinality({i \in QualityAt(recs) : recs[i].sleep_quality.value = q})

\* the first position of the sleep_quality string q
FirstAt(recs, q) ==
    CHOOSE i \in QualityAt(recs) :
        /\ recs[i].sleep_quality.value = q
        /\ \A j \in QualityAt(recs) :
              recs[j].sleep_quality.value = q => i <= j

\* C18: sleep_quality_mode is a value of maximal frequency among the
\* non-null sleep_quality strings of the bucket; among the values tied for
\* the maximum it is the one first encountered in bucket order; with no
\* sleep_quality value in the bucket it is the empty string.
C18_ModeFirstOfMostFrequent ==
    pc = "calculate_health_week" =>
        LET at == QualityAt(health_records)
            mode == health_week.sleep_quality_mode
        IN  IF at = {} THEN mode = ""
            ELSE /\ \E i \in at : health_records[i].sleep_quality.value = mode
                 /\ \A j \in at :
                      LET q == health_records[j].sleep_quality.value
                      IN  /\ QualityCount(health_records, q)
                               <= QualityCount(health_records, mode)
                          /\ QualityCount(health_records, q)
                               = QualityCount(health_records, mode)
                                => FirstAt(health_records, mode)
                                       <= FirstAt(health_records, q)

\* two values tied for the maximum after a record without a sleep quality:
\* the mode is the one met first
C18_Witness ==
    /\ pc = "calculate_health_week"
    /\ Len(health_records) = 3
    /\ health_records[1].sleep_quality.type = "NoneType"
    /\ health_records[2].sleep_quality = PyStr("GOOD")
    /\ health_records[3].sleep_quality = PyStr("FAIR")
    /\ health_week.sleep_quality_mode = "GOOD"

\* C30: the TrainingWeek of a bucket (no record has a negative distance)
\* has sessions equal to the bucket size, running_count + gym_sessions,
\* active_days and tough_sessions each at most sessions, longest_run_km at
\* most running_km, feeling_pct within 0..100 and feeling_avg either 0 or
\* within 1..5 (floats in tenths).
C30_TrainingWeekBounds ==
    pc = "calculate_training_week" =>
        /\ training_week.sessions = Len(training_records)
        /\ training_week.running_count + training_week.gym_sessions
               <= training_week.sessions
        /\ training_week.active_days <= training_week.sessions
        /\ training_week.tough_sessions <= training_week.sessions
        /\ training_week.longest_run_km <= training_week.running_km
        /\ 0 <= training_week.feeling_pct /\ training_week.feeling_pct <= 1000
        /\ \/ training_week.feeling_avg = 0
           \/ 10 <= training_week.feeling_avg /\ training_week.feeling_avg <= 50

\* two runs of the same day, the longer of 10.5 km, one felt 'Tired', and
\* a crossfit session felt 'Exhausted': one active day less than sessions,
\* feeling_avg 1.5 or more, no session felt good
C30_Witness ==
    /\ pc = "calculate_training_week"
    /\ training_week.sessions = 3
    /\ training_week.running_count = 2 /\ training_week.gym_sessions = 1
    /\ training_week.active_days = 2
    /\ training_week.longest_run_km = 105
    /\ training_week.running_km > 105
    /\ training_week.tough_sessions = 2
    /\ training_week.feeling_avg > 10

\* the RunningPeriod _compute_dashboard_data computes from the same bucket
SameBucketPeriod == calculate_running_period(training_records, AggregateLabel)

\* C29: calculate_training_week and calculate_running_period, applied to
\* the same bucket, agree on the running figures: running_count is
\* run_count and running_km is total_km.
C29_RunningFiguresAgree ==
    pc = "calculate_training_week" =>
        /\ training_week.running_count = SameBucketPeriod.run_count
        /\ training_week.running_km = SameBucketPeriod.total_km

\* a bucket of two runs, 8.0 km and 10.5 km, and a mobility session that
\* has a distance of its own: two runs, 18.5 km, on both sides
C29_Witness ==
    /\ pc = "calculate_training_week"
    /\ training_week.sessions = 3
    /\ \E i \in 1..3 : training_records[i] = Mobility
    /\ training_week.running_count = 2 /\ SameBucketPeriod.run_count = 2
    /\ training_week.running_km = 185 /\ SameBucketPeriod.total_km = 185

----------------------------------------------------------------------------
(* Properties of the insight text (SpecInsight) *)

InsightsDone == pc = "generate_recovery_health_insight"

\* the current period (index 0) holds a record with a value under one of keys
CurrentHas(by_week, keys) ==
    /\ by_week # <<>>
    /\ \E i \in 1..Len(by_week[1]) :
           \E k \in keys : by_week[1][i][k].type # "NoneType"

\* the current period holds a run
CurrentHasRun ==
    /\ training_by_week # <<>>
    /\ \E i \in 1..Len(training_by_week[1]) :
           training_by_week[1][i].training_type = PyStr("Running")

\* C19: an insight generator returns its fixed no-data sentinel exactly when
\* the current period (index 0) has no data relevant to the insight, and
\* metric text only when it has: generate_sleep_insight without a sleep
\* measurement (hours or quality), generate_hr_insight without a resting-HR
\* measurement, generate_running_power_insight without a run.
C19_SentinelIffNoData ==
    InsightsDone =>
        /\ health_sleep_insight = <<"No sleep data.">>
              <=> ~CurrentHas(health_by_week, {"sleep_hours", "sleep_quality"})
        /\ health_hr_insight = <<"No HR data.">>
              <=> ~CurrentHas(health_by_week, {"resting_hr"})
        /\ running_power_insight = <<"No running data this period.">>
              <=> ~CurrentHasRun

\* line is one of the lines of text
HasLine(text, line) ==
    \E i \in 1..(Len(text) - Len(line) + 1) :
        /\ SubSeq(text, i, i + Len(line) - 1) = line
        /\ i = 1 \/ text[i - 1] = "\n"
        /\ i + Len(line) - 1 = Len(text) \/ text[i + Len(line)] = "\n"

\* the decimals at which the aggregators round: _safe_avg and the sums one,
\* the power-to-HR ratio two
AggregatorDecimals == 1
RatioDecimals == 2

\* a value in tenths written with the decimals it was computed with
Computed(value) == _format_num(value, AggregatorDecimals)

\* the metric lines of the current running period, as the claim has them
RunningLinesAsComputed ==
    LET cur == running_periods[1] IN
    /\ HasLine(running_power_insight,
               <<"Avg Power: ">> \o Computed(cur.avg_power_w) \o <<"W">>)
    /\ HasLine(running_power_insight,
               <<"Total RSS: ">> \o Computed(cur.total_rss) \o <<" (">>
                   \o Computed(cur.avg_rss_per_run) \o <<"/run)">>)
    /\ cur.power_to_hr_ratio > 0 =>
           HasLine(running_power_insight,
                   <<"Power:HR ratio: ">>
                       \o _format_num_hundredths(cur.power_to_hr_ratio,
                                                 RatioDecimals))
    /\ cur.avg_cadence_spm > 0 =>
           HasLine(running_biomechanics_insight,
                   <<"Cadence: ">> \o Computed(cur.avg_cadence_spm)
                       \o <<" spm">>)
    /\ cur.avg_stride_length_m > 0 =>
           HasLine(running_biomechanics_insight,
                   <<"Stride: ">> \o Computed(cur.avg_stride_length_m)
                       \o <<"m">>)
    /\ cur.avg_ground_contact_ms > 0 =>
           HasLine(running_biomechanics_insight,
                   <<"Ground Contact: ">> \o Computed(cur.avg_ground_contact_ms)
                       \o <<"ms">>)
    /\ cur.avg_vertical_oscillation_cm > 0 =>
           HasLine(running_biomechanics_insight,
                   <<"Vert Oscillation: ">>
                       \o Computed(cur.avg_vertical_oscillation_cm) \o <<"cm">>)
    /\ cur.avg_leg_spring_stiffness > 0 =>
           HasLine(running_biomechanics_insight,
                   <<"Leg Spring: ">> \o Computed(cur.avg_leg_spring_stiffness))

\* the metric lines of the current health week, as the claim has them
HealthLinesAsComputed ==
    LET cur == health_weeks[1] IN
    /\ HasLine(health_sleep_insight,
               <<"Avg: ">> \o Computed(cur.avg_sleep_hours) \o <<"h">>)
    /\ HasLine(health_hr_insight,
               <<"Avg: ">> \o Computed(cur.avg_resting_hr) \o <<" bpm">>)
    /\ cur.avg_body_battery > 0 =>
           HasLine(health_recovery_insight,
                   <<"Body Battery: ">> \o Computed(cur.avg_body_battery))
    /\ cur.avg_steps > 0 =>
           HasLine(health_recovery_insight,
                   <<"Avg Steps: ">> \o Computed(cur.avg_steps))

\* C20: an insight shows every aggregate value with exactly the decimals at
\* which the aggregator rounded it, neither more decimals nor a second
\* rounding; this covers avg_stride_length_m and avg_steps.
C20_DecimalsAsComputed ==
    InsightsDone =>
        /\ running_periods # <<>> /\ running_periods[1].run_count > 0 =>
               RunningLinesAsComputed
        /\ health_weeks # <<>> /\ health_weeks[1].entries > 0 =>
               HealthLinesAsComputed

IsDigit(c) == \E n \in 0..9 : c = digit(n)

\* the decimal points of a text: a "." followed by a digit
DecimalPoints(text) ==
    {i \in 1..(Len(text) - 1) : text[i] = "." /\ IsDigit(text[i + 1])}

\* the number of digits that follow position i
RECURSIVE DigitsAfter(_, _)
DigitsAfter(text, i) ==
    IF i < Len(text) /\ IsDigit(text[i + 1]) THEN 1 + DigitsAfter(text, i + 1)
    ELSE 0

\* every number of the text is an integer, or has 1 or 2 decimals that are
\* not all zero
NumbersWithoutPointZero(text) ==
    \A i \in DecimalPoints(text) :
        /\ DigitsAfter(text, i) \in {1, 2}
        /\ \E k \in 1..DigitsAfter(text, i) : text[i + k] # "0"

\* C21: every aggregate value in the text of an insight generator is shown
\* without a trailing ".0": a whole number as an integer, any other value
\* with 1 or 2 decimals.
C21_NoTrailingPointZero ==
    InsightsDone =>
        \A text \in {running_power_insight, running_biomechanics_insight,
                     training_takeaway, health_sleep_insight,
                     health_hr_insight, health_recovery_insight} :
            NumbersWithoutPointZero(text)

----------------------------------------------------------------------------
(* Properties of the chart data (SpecCharts) *)

ChartsDone == pc = "build_charts_data"

\* the ordinal of the Monday of d's week (ordinal 1 is a Monday)
MondayOrdinal(d) == toordinal(d) - ((toordinal(d) - 1) % 7)

\* the dates of the dated records given to build_charts_data
ChartRecordDates ==
    {fromisoformat(str_10(r.date)) :
        r \in {rec \in {training_records[i] : i \in 1..Len(training_records)}
                         \cup {health_records[i] : i \in 1..Len(health_records)} :
                  rec.date # PyNone}}

\* the records of recs dated within the week that starts at ordinal monday
DatedWithin(recs, monday) ==
    SelectSeq(recs, LAMBDA r :
        /\ r.date # PyNone
        /\ toordinal(fromisoformat(str_10(r.date))) \in monday..(monday + 6))

\* the number of weeks from the week of the earliest record to today's week
ChartWeekCount ==
    LET first == MondayOrdinal(CHOOSE d \in ChartRecordDates :
                     \A e \in ChartRecordDates : toordinal(d) <= toordinal(e))
        last == MondayOrdinal(today)
    IN  IF first <= last THEN (last - first) \div 7 + 1 ELSE 0

ChartFirstMonday ==
    MondayOrdinal(CHOOSE d \in ChartRecordDates :
        \A e \in ChartRecordDates : toordinal(d) <= toordinal(e))

\* C22: build_charts_data returns four weekly series of equal length, one
\* entry per Monday-to-Sunday week from the week of the earliest dated record
\* through the week that contains today, oldest first, week_start growing by
\* 7 days and equal at equal index in the four series; the entry of a week
\* aggregates exactly the records dated within that week.
C22_WeeklySeries ==
    ChartsDone /\ ChartRecordDates # {} =>
        LET w == charts_data.weekly
            n == ChartWeekCount
        IN  /\ Len(w.training) = n /\ Len(w.health) = n
            /\ Len(w.running) = n /\ Len(w.load) = n
            /\ \A i \in 1..n :
                 LET monday == ChartFirstMonday + 7 * (i - 1)
                     start == isoformat(fromordinal(monday))
                 IN  /\ w.training[i].week_start = start
                     /\ w.health[i].week_start = start
                     /\ w.running[i].week_start = start
                     /\ w.load[i].week_start = start
                     /\ w.training[i] =
                          with_week_start(
                            calculate_training_week(
                              DatedWithin(training_records, monday),
                              w.training[i].label),
                            fromordinal(monday))
                     /\ w.health[i] =
                          with_week_start(
                            calculate_health_week(
                              DatedWithin(health_records, monday),
                              w.health[i].label),
                            fromordinal(monday))
                     /\ w.running[i] =
                          with_week_start(
                            calculate_running_period(
                              DatedWithin(training_records, monday),
                              w.running[i].label),
                            fromordinal(monday))

\* three weeks, training in the first and the last, health in the middle one
C22_Witness ==
    /\ ChartsDone
    /\ Len(charts_data.weekly.training) = 3
    /\ charts_data.weekly.training[1].sessions = 1
    /\ charts_data.weekly.training[3].sessions = 1
    /\ charts_data.weekly.health[2].entries = 1
    /\ charts_data.weekly.load[3].week_start = isoformat(date(2026, 2, 9))

----------------------------------------------------------------------------
(* Properties of invocations in progress at the same time (SpecConcurrent) *)
----------------------------------------------------------------------------

\* what the call returns when it runs alone on the arguments
alone(f) ==
    return_value(f, [seen |-> Iterated(f),
                     buckets |-> group_by_period(records, group_periods)],
                 week_starts, load, current_value, previous_avg)

ReturnsAsAlone ==
    \A p \in Invocations :
        returned[p].fn # "" => returned[p].value = alone(returned[p].fn)

\* C23: whatever the interleaving of the invocations in progress, no step
\* of any of them changes an argument (record lists, period lists,
\* aggregate objects), and every invocation returns what the function
\* returns when it runs alone on the same arguments.
C23_PureUnderInterleaving ==
    /\ []ReturnsAsAlone
    /\ [][concurrent_args' = concurrent_args]_vars

\* two bucketing calls on the same record list have run alongside each
\* other and each returned the non-empty buckets
C23_Witness ==
    /\ \A p \in Invocations :
          /\ returned[p].fn = "group_by_period" /\ returned[p].overlapped
          /\ returned[p].value[1] # <<>>

----------------------------------------------------------------------------
(* Properties of the report pages (SpecSubpage, SpecMain) *)
----------------------------------------------------------------------------

\* the positions of the child_page blocks that carry exactly this title
Matching(children, wanted) ==
    {i \in 1..Len(children) :
        children[i].type = "child_page" /\ children[i].title = wanted}

Least(S) == CHOOSE i \in S : \A j \in S : i <= j

CreatedWith(wanted) ==
    Cardinality({i \in 1..Len(notion.created) :
                    /\ notion.created[i].parent = DashboardPageId
                    /\ notion.created[i].title = wanted})

\* one call: either no block matches and one page is created, which is
\* then the last child of the parent, or the first matching block's id is
\* returned without its dashes and the workspace is left alone
FindOrCreateStep ==
    subpage_calls' = subpage_calls + 1 =>
        LET before == notion.children[DashboardPageId]
            after == notion'.children[DashboardPageId]
            m == Matching(before, title')
        IN  IF m = {}
            THEN /\ notion'.created =
                        Append(notion.created,
                               [parent |-> DashboardPageId, title |-> title'])
                 /\ Len(after) = Len(before) + 1
                 /\ Matching(after, title') = {Len(after)}
                 /\ page_id' = strip_dashes(after[Len(after)].id)
            ELSE /\ notion' = notion
                 /\ page_id' = strip_dashes(before[Least(m)].id)
                 /\ "-" \notin {page_id'[i] : i \in 1..Len(page_id')}

\* C24: find_or_create_subpage creates a page only when the parent has no
\* child_page block of exactly the requested title, and otherwise returns
\* the dash-stripped id of the first such block and creates nothing; over
\* any sequence of calls on the same parent at most one page is created
\* for a title.
C24_FindOrCreateOnce ==
    /\ [][FindOrCreateStep]_vars
    /\ [](\A wanted \in {MonthlyReport, QuarterlyReport} :
             CreatedWith(wanted) <= 1)

\* MaxCalls calls for the same title on a dashboard that had no such page:
\* the first created it, the later ones returned it
C24_Witness ==
    /\ subpage_calls = MaxCalls
    /\ title = MonthlyReport
    /\ notion.children[DashboardPageId] =
           <<ChildPage(service_id(1), MonthlyReport)>>
    /\ notion.created = <<[parent |-> DashboardPageId, title |-> MonthlyReport]>>
    /\ page_id = strip_dashes(service_id(1))

Subpages == {subpage_ids[i][2] : i \in 1..Len(subpage_ids)}

\* the pages that are an undeleted child of the dashboard page
UndeletedSubpages ==
    {strip_dashes(notion.children[DashboardPageId][i].id) :
        i \in Matching(notion.children[DashboardPageId], MonthlyReport)
              \cup Matching(notion.children[DashboardPageId], QuarterlyReport)
              \cup Matching(notion.children[DashboardPageId], YearlyReport)}

\* C25: when a run that writes has finished, every report page that was
\* found or created and filled, the pages the Reports section links to, is
\* still an undeleted child of the dashboard page.
C25_SubpagesSurviveRewrite ==
    pc = "main" =>
        /\ Len(subpage_ids) = Len(SubpageTitles)
        /\ Subpages \subseteq UndeletedSubpages
        /\ \A id \in Subpages :
              \E i \in 1..Len(notion.children[DashboardPageId]) :
                  notion.children[DashboardPageId][i].page = id

----------------------------------------------------------------------------
(* Properties of the warnings on a computed load (SpecWarnings) *)
----------------------------------------------------------------------------

WarningsDone == pc = "overreaching_warnings"

\* C26 as stated: a warning is emitted only while the computed load is
\* classified 'caution' or 'danger', never while it is 'optimal' or
\* 'detraining'.
C26_WarningsOnlyWhenElevated ==
    (WarningsDone /\ warnings # <<>>)
        => load.load_status \in {"caution", "danger"}

\* C26 amended: a warning is emitted only when acwr >= 1.3, that is while
\* the computed load is 'caution' or 'danger', or 'optimal' at an acwr of
\* exactly 1.3; never while it is 'detraining' or 'optimal' below 1.3.
C26_WarningsOnlyFromThreshold ==
    (WarningsDone /\ warnings # <<>>)
        => /\ load.acwr >= 130
           /\ \/ load.load_status \in {"caution", "danger"}
              \/ load.load_status = "optimal" /\ load.acwr = 130

\* acute 13.0 over chronic 10.0: acwr 1.3, 'optimal', with a warning
C26_Witness ==
    /\ WarningsDone
    /\ load.acute_load = 130 /\ load.chronic_load = 100
    /\ load.acwr = 130 /\ load.load_status = "optimal"
    /\ warnings # <<>>

----------------------------------------------------------------------------
(* Properties of the Stryd sync (SpecStryd) *)
----------------------------------------------------------------------------

\* the runs in which a create_page or update_page call was issued for the
\* activity
RunsThatWrote(activity) ==
    {sync_calls[i].run :
        i \in {j \in 1..Len(sync_calls) :
                  sync_calls[j].external_id = external_id_of(activity)}}

\* C27: an activity for which some run issued create_page or update_page
\* gets no such call from any later run over the same activities.
C27_ProcessedOnce ==
    \A i \in 1..Len(activities) :
        Cardinality(RunsThatWrote(activities[i])) <= 1

====
